---- MODULE Spec2Model ----
(***************************************************************************)
(* PhotoCore media pipeline: the filesystem scanner reconciling a media    *)
(* tree against the store (internal/scanner/scanner.go,                    *)
(* internal/storage/models.go), and the worker pool with the thumbnail     *)
(* service on top of it (internal/scanner/metadata.go from line 324,       *)
(* internal/worker/thumbnail_worker.go).                                   *)
(*                                                                         *)
(* The specifications of the module: SpecScan (scanner, store, user trash  *)
(* actions, filesystem), SpecPool (pool, thumbnail service), SpecWatch     *)
(* (the filesystem watcher of unnamed/part_001), SpecBlock (the pool under *)
(* callers of SubmitBlocking), SpecStore (tags, favourites, albums and     *)
(* DeleteMedia) and SpecEdit (the thumbnail service beside user edits of   *)
(* the same records); SpecPoolLive and SpecWatchLive are SpecPool and      *)
(* SpecWatch under weak fairness of their goroutines.                      *)
(* Go strings that are digests or paths are modelled as tuples, the empty  *)
(* string as the empty tuple; a nil pointer as the empty sequence and a    *)
(* non-nil one as a one-element sequence.                                  *)
(***************************************************************************)
EXTENDS Integers, Sequences, FiniteSets, TLC

VARIABLES
    \* ---- filesystem and store -------------------------------------------
    fs,           \* file -> [content, mtime]: the media tree on disk
    store,        \* [media, idxDir, idxDate]: the bolt buckets
    links,        \* [idxTag, favorites, userFav, albums]: further buckets
    \* ---- Scanner ---------------------------------------------------------
    scanning,     \* Scanner.scanning
    progress,     \* Scanner.progress
    staleStop,    \* a closed stopChan is still visible to the unsynchronised read
    startPend,    \* Start() calls between s.mu.Unlock() and `go s.scan()`
    walkers,      \* scan goroutines that have not yet run their deferred reset
    spc,          \* position of the scan goroutine
    idx,          \* index of the file the walk is at
    info,         \* os.FileInfo handed to the walk callback
    existing,     \* local `existing`
    cur,          \* local `media` being built / the record SoftDeleteMedia read
    dupResult,    \* local `dupResult`
    \* ---- a user of the store (web handlers) -------------------------------
    upc, urec,
    \* ---- environment budgets ------------------------------------------------
    events,       \* environment events so far
    \* ---- history (observations only) ---------------------------------------
    scansStarted, \* number of successful Start() calls
    hashCalls,    \* CalculateHashes calls of the current scan
    scanWrites,   \* store writes of the current scan
    pristine,     \* the tree was fully recorded and unchanged when the scan began
    clean,        \* no injected failure, user action, stop or file change so far
    stopReturned, \* Stop() has returned during the current scan
    passedAfterStop, \* a file-boundary check let a file through after Stop()
    userRestored, \* ids a user restored from the trash
    verdict,      \* id -> the duplicate verdict the scanner acted on
    \* ---- worker Pool ------------------------------------------------------
    poolStarted,  \* Start() has launched the workers
    ctxDone,      \* p.ctx is cancelled
    expired,      \* ids of the tasks whose context.WithTimeout deadline passed
    queueClosed,  \* p.taskQueue is closed
    stopPc,       \* position of the goroutine running Pool.Stop()
    taskQueue,    \* p.taskQueue: buffered channel of tasks
    resultQueue,  \* p.resultQueue: buffered channel of results
    stats,        \* p.stats
    wpc,          \* worker -> position in worker() / processTask() / the handler
    wtask,        \* worker -> the task it dequeued
    wm,           \* worker -> the handler's local `m`
    wok,          \* worker -> the handler's outcome so far
    panicked,     \* a goroutine panicked: the process is gone
    \* ---- ThumbnailService -------------------------------------------------
    processing,   \* keys marked in flight
    failed,       \* keys that failed permanently
    cpc,          \* caller -> position in QueueThumbnail / Pool.Submit
    ctask,        \* caller -> the task it built
    tasksMade,    \* tasks built so far (the next task id)
    \* ---- history (observations only) ---------------------------------------
    executed,     \* ids of the tasks whose handler was invoked
    rejected,     \* ids of the tasks Submit refused
    lateAccepted, \* a Submit enqueued a task after Stop() had begun
    dropped,      \* ids of the tasks whose result found the buffer full
    unhandled,    \* ids of the tasks dequeued with no handler for their type
    \* ---- Watcher ----------------------------------------------------------
    wRunning,     \* Watcher.running
    wStopPc,      \* position of the goroutine running Watcher.Stop()
    loopPc,       \* position of the eventLoop goroutine
    pendingEvents, \* w.pendingEvents: path -> the latest FileEvent
    timerArmed,   \* id of w.debounceTimer while it can still fire, else 0
    timersMade,   \* timers created so far by time.AfterFunc
    callbacks,    \* timer id -> the processPendingEvents call it started
    \* ---- history (observations only) ---------------------------------------
    accepted,     \* the events handleFSEvent stored, in order of arrival
    burst,        \* path -> number of bursts of events seen on it
    quiet,        \* path -> no timer fired since the last event on it
    invoked,      \* <<handler, event number>> -> times the handler got it
    invokedAfterStop, \* a handler was invoked after Watcher.Stop() returned
    \* ---- callers of Pool.SubmitBlocking -----------------------------------
    bpc,          \* caller -> position in SubmitBlocking
    btask,        \* caller -> the task it passed
    bret,         \* caller -> what its last call returned ("" before a return)
    sendq,        \* callers parked on the send to p.taskQueue, oldest first
    calledFull    \* history: caller -> its call began on a running pool with
                  \* a full queue

scanOnly == <<fs, scanning, progress, staleStop, startPend, walkers,
              spc, idx, info, existing, cur, dupResult,
              upc, urec, events, scansStarted, hashCalls, scanWrites,
              pristine, clean, stopReturned, passedAfterStop, userRestored,
              verdict>>

scanVars == <<store, scanOnly>>

poolVars == <<poolStarted, ctxDone, expired, queueClosed, stopPc, taskQueue,
              resultQueue, stats, wpc, wtask, wm, wok, panicked, processing,
              failed, cpc, ctask, tasksMade, executed, rejected, lateAccepted,
              dropped, unhandled>>

watchVars == <<wRunning, wStopPc, loopPc, pendingEvents, timerArmed,
               timersMade, callbacks, accepted, burst, quiet, invoked,
               invokedAfterStop>>

blockVars == <<bpc, btask, bret, sendq, calledFull>>

vars == <<scanVars, poolVars, watchVars, blockVars, links>>

(***************************************************************************)
(* Bounds of the scanner model.                                            *)
(***************************************************************************)
NumFiles == 2      \* files in the media root
MaxScans == 2      \* successful Start() calls explored
MaxEvents == 2     \* environment events explored: I/O failures, user actions,
                   \* file changes, stop requests

Files == 1..NumFiles

(***************************************************************************)
(* File contents.  A content stands for the bytes of a file; it fixes the  *)
(* size, the SHA-256 digest, the perceptual hash (the set of 1-bits of the *)
(* 64-bit dHash) and the EXIF capture year.                                *)
(***************************************************************************)
Contents == {"imgA", "imgA2", "imgA3", "imgB", "vidV"}

ContentType(c) == IF c = "vidV" THEN "video" ELSE "image"

ContentSize(c) == CASE c = "imgA" -> 10 [] c = "imgA2" -> 7 [] OTHER -> 10

\* calculateSHA256: hex digest of the bytes; distinct bytes, distinct digest
calculateSHA256(c) == <<"sha256", c>>

\* calculateImageHash: dHash of the decoded image, as its set of 1-bits
calculateImageHash(c) ==
    CASE c = "imgA" -> 1..20 [] c = "imgA2" -> 1..17 [] c = "imgA3" -> 1..20
      [] c = "imgB" -> 31..38 [] OTHER -> {}

\* EXIF DateTimeOriginal year found by ExtractMetadata (0: none)
ContentTakenAt(c) == IF c = "imgA" THEN 2020 ELSE 0

\* the bytes carry EXIF tags (camera, lens, GPS), with or without a date
ContentHasExif(c) == c \in {"imgA", "imgB"}

EmptyString == <<>>
Nil == <<>>
Ptr(x) == <<x>>

(***************************************************************************)
(* storage/utils.go                                                        *)
(***************************************************************************)
GenerateID(path) == <<"id", path>>

IDs == {GenerateID(f) : f \in Files}

\* byte order of the keys in the media bucket (bolt iterates in key order);
\* the order of SHA-256 digests is unrelated to the order of the paths
KeyBefore(a, b) == a[2] > b[2]

(***************************************************************************)
(* storage/models.go: the store                                            *)
(***************************************************************************)
Put(bucket, k, v) ==
    [x \in DOMAIN bucket \cup {k} |-> IF x = k THEN v ELSE bucket[x]]

addToIndex(bucket, key, id) ==
    IF key \in DOMAIN bucket /\ \E i \in DOMAIN bucket[key] : bucket[key][i] = id
    THEN bucket
    ELSE Put(bucket, key,
             (IF key \in DOMAIN bucket THEN bucket[key] ELSE <<>>) \o <<id>>)

SaveMedia(s, m) ==
    [media   |-> Put(s.media, m.ID, m),
     idxDir  |-> addToIndex(s.idxDir, m.Dir, m.ID),
     idxDate |-> IF m.TakenAt > 1900
                 THEN addToIndex(s.idxDate, m.TakenAt, m.ID)
                 ELSE s.idxDate]

GetMedia(s, id) == IF id \in DOMAIN s.media THEN Ptr(s.media[id]) ELSE Nil

GetMediaByPath(s, path) == GetMedia(s, GenerateID(path))

\* the write transaction of SoftDeleteMedia / RestoreMedia: the whole record
\* read earlier is written back
PutRecord(s, m) == [s EXCEPT !.media = Put(s.media, m.ID, m)]

\* RestoreMedia, lines 1500-1511: the record read, with DeletedAt cleared
Restored(m) == [m EXCEPT !.DeletedAt = Nil]

ListAllMedia(s) == {id \in DOMAIN s.media : s.media[id].DeletedAt = Nil}

\* int64(float64(size) * 0.9) and int64(float64(size) * 1.1)
\* a window that starts above the size itself
MinSizeAbove(size) == size + 1

MinSize(size) == (size * 9) \div 10
MaxSize(size) == (size * 11) \div 10

\* FindMediaBySizeRange without its check of DeletedAt
FindMediaBySizeRangeAll(s, size) ==
    {id \in DOMAIN s.media :
        /\ s.media[id].Size >= MinSize(size)
        /\ s.media[id].Size <= MaxSize(size)}

FindMediaBySizeRange(s, size) ==
    {id \in DOMAIN s.media :
        /\ s.media[id].DeletedAt = Nil
        /\ s.media[id].Size >= MinSize(size)
        /\ s.media[id].Size <= MaxSize(size)}

\* a distance that sees no differing bit
hammingDistanceNone(hash1, hash2) == 0

\* popcount of hash1 XOR hash2
hammingDistance(hash1, hash2) ==
    Cardinality((hash1 \ hash2) \cup (hash2 \ hash1))

\* the first element of a set of keys in bucket order
FirstKey(S) == CHOOSE a \in S : \A b \in S \ {a} : KeyBefore(a, b)

NotDuplicate ==
    [IsDuplicate |-> FALSE, Type |-> "", ExistingID |-> EmptyString, Distance |-> 0]

\* CheckDuplicate without its checksum tier
ExactMatchesNone(s, size, checksum) == {}

\* step 1 of CheckDuplicate: size window, then checksum
ExactMatches(s, size, checksum) ==
    IF checksum = EmptyString THEN {}
    ELSE {id \in FindMediaBySizeRange(s, size) : s.media[id].Checksum = checksum}

\* step 2 of CheckDuplicate run over every record, soft-deleted ones included
SimilarMatchesAll(s, imageHash, isImage, similarityThreshold) ==
    IF ~isImage \/ imageHash = {} THEN {}
    ELSE {id \in DOMAIN s.media :
             /\ s.media[id].ImageHash # {}
             /\ hammingDistance(imageHash, s.media[id].ImageHash) <= similarityThreshold}

\* step 2 of CheckDuplicate: perceptual hash against every live record
SimilarMatches(s, imageHash, isImage, similarityThreshold) ==
    IF ~isImage \/ imageHash = {} THEN {}
    ELSE {id \in ListAllMedia(s) :
             /\ s.media[id].ImageHash # {}
             /\ hammingDistance(imageHash, s.media[id].ImageHash) <= similarityThreshold}

ExactResult(s, size, checksum) ==
    [IsDuplicate |-> TRUE, Type |-> "exact",
     ExistingID |-> FirstKey(ExactMatches(s, size, checksum)), Distance |-> 0]

SimilarResult(s, imageHash, isImage, similarityThreshold) ==
    LET m == FirstKey(SimilarMatches(s, imageHash, isImage, similarityThreshold))
    IN  [IsDuplicate |-> TRUE, Type |-> "similar", ExistingID |-> m,
         Distance |-> hammingDistance(imageHash, s.media[m].ImageHash)]

\* CheckDuplicate over one state of the store: lines 1765-1807
CheckDuplicate(s, size, checksum, imageHash, isImage, similarityThreshold) ==
    IF ExactMatches(s, size, checksum) # {}
    THEN ExactResult(s, size, checksum)
    ELSE IF SimilarMatches(s, imageHash, isImage, similarityThreshold) # {}
         THEN SimilarResult(s, imageHash, isImage, similarityThreshold)
         ELSE NotDuplicate

\* the similarity threshold the scanner passes to CheckDuplicate
ScanThreshold == 10


(***************************************************************************)
(* scanner/scanner.go: Scanner                                             *)
(***************************************************************************)
ZeroProgress(running, startedAt) ==
    [Running |-> running, StartedAt |-> startedAt, TotalFiles |-> 0,
     Scanned |-> 0, NewFiles |-> 0, UpdatedFiles |-> 0,
     SkippedDuplicates |-> 0, Errors |-> 0, CurrentPath |-> 0]

\* Start() without its guard
StartRefusedNever == FALSE

\* the guard of Start(): `if s.scanning`
StartRefused == scanning

\* the file as the walk sees it (lstat before the callback)
FileInfo(f) ==
    [mtime |-> fs[f].mtime, size |-> ContentSize(fs[f].content),
     type |-> ContentType(fs[f].content)]

\* every file of the tree has a record carrying its current mtime and size
TreeRecorded ==
    \A f \in Files :
        /\ GenerateID(f) \in DOMAIN store.media
        /\ store.media[GenerateID(f)].ModifiedAt = fs[f].mtime
        /\ store.media[GenerateID(f)].Size = ContentSize(fs[f].content)

\* the scanner without the unchanged-file fast path
UnchangedNever(ex, inf) == FALSE

\* the unchanged-file fast path: same mtime and same size
Unchanged(ex, inf) == ex.ModifiedAt = inf.mtime /\ ex.Size = inf.size

IsImage(type) == type = "image" \/ type = "raw"

\* lines 175-187: the fresh record
FreshMedia(path, inf, now) ==
    [ID |-> GenerateID(path), Path |-> path, Dir |-> "root", Type |-> inf.type,
     Size |-> inf.size, ModifiedAt |-> inf.mtime, CreatedAt |-> now,
     TakenAt |-> 0, Metadata |-> EmptyString, DeletedAt |-> Nil,
     Checksum |-> EmptyString, ImageHash |-> {}, DuplicateOf |-> EmptyString,
     ThumbSmall |-> EmptyString, ThumbLarge |-> EmptyString,
     IsFavorite |-> FALSE, Tags |-> {}]

\* lines 189-203: fields carried over from the existing record
CarryOver(m, ex) ==
    LET kept == [m EXCEPT !.CreatedAt = ex.CreatedAt,
                          !.IsFavorite = ex.IsFavorite,
                          !.Tags = ex.Tags,
                          !.ThumbSmall = ex.ThumbSmall,
                          !.ThumbLarge = ex.ThumbLarge,
                          !.Checksum = ex.Checksum,
                          !.ImageHash = ex.ImageHash]
    IN  IF ex.TakenAt > 1900
        THEN [kept EXCEPT !.TakenAt = ex.TakenAt, !.Metadata = ex.Metadata]
        ELSE kept

\* lines 205-210: ExtractMetadata fills the EXIF fields the bytes carry
ExtractMetadata(m, content) ==
    [m EXCEPT !.TakenAt = IF ContentTakenAt(content) > 1900
                          THEN ContentTakenAt(content) ELSE @,
              !.Metadata = IF ContentHasExif(content)
                           THEN <<"exif", content>> ELSE @]

\* hashing.go CalculateHashes on a readable file
CalculateHashes(content, isImage) ==
    [Checksum |-> calculateSHA256(content),
     ImageHash |-> IF isImage THEN calculateImageHash(content) ELSE {}]

\* lines 173-222: the record the callback goes on with
BuildMedia(path, inf, ex, content, now, hashFails) ==
    LET m0 == FreshMedia(path, inf, now)
        m1 == IF ex # Nil THEN CarryOver(m0, ex[1]) ELSE m0
        m2 == IF ex = Nil /\ IsImage(inf.type) THEN ExtractMetadata(m1, content) ELSE m1
        h  == CalculateHashes(content, IsImage(inf.type))
    IN  IF m2.Checksum = EmptyString /\ ~hashFails
        THEN [m2 EXCEPT !.Checksum = h.Checksum, !.ImageHash = h.ImageHash]
        ELSE m2

Now == scansStarted

NoInfo == [mtime |-> 0, size |-> 0, type |-> ""]
NoMedia == FreshMedia(0, NoInfo, 0)

userVars == <<upc, urec, userRestored>>
walkLocals == <<idx, info, existing, cur, dupResult>>
startVars == <<scanning, startPend, walkers, scansStarted>>
scanHistory == <<hashCalls, scanWrites, pristine, stopReturned, passedAfterStop>>

\* an I/O call fails (within the budget of failures explored)
Fault == events < MaxEvents /\ events' = events + 1 /\ clean' = FALSE
NoFault == UNCHANGED <<events, clean>>

\* Start(): lines 50-62, up to s.mu.Unlock().  The refused call returns the
\* "scan already in progress" error and changes nothing.
Start ==
    /\ UNCHANGED <<poolVars, watchVars, blockVars, links>>
    /\ scanning \/ scansStarted < MaxScans
    /\ IF StartRefused
       THEN UNCHANGED <<scanning, progress, startPend, scansStarted>>
            /\ UNCHANGED scanHistory
       ELSE /\ scanning' = TRUE
            /\ progress' = ZeroProgress(TRUE, scansStarted + 1)
            /\ startPend' = startPend + 1
            /\ scansStarted' = scansStarted + 1
            /\ hashCalls' = 0
            /\ scanWrites' = 0
            /\ pristine' = TreeRecorded
            /\ stopReturned' = FALSE
            /\ passedAfterStop' = FALSE
    /\ UNCHANGED <<fs, store, staleStop, walkers, spc, verdict>>
    /\ UNCHANGED walkLocals
    /\ UNCHANGED userVars
    /\ NoFault

\* Start(): line 63, `go s.scan()`
GoScan ==
    /\ UNCHANGED <<poolVars, watchVars, blockVars, links>>
    /\ startPend > 0
    /\ startPend' = startPend - 1
    /\ walkers' = walkers + 1
    /\ IF walkers = 0
       THEN spc' = "root" /\ staleStop' = FALSE
       ELSE UNCHANGED <<spc, staleStop>>
    /\ UNCHANGED <<fs, store, scanning, progress, scansStarted, verdict>>
    /\ UNCHANGED walkLocals
    /\ UNCHANGED scanHistory
    /\ UNCHANGED userVars
    /\ NoFault

\* Stop(): lines 68-75.  The closed channel is replaced by a fresh open one
\* under the lock; the walk reads s.stopChan without the lock, so it sees the
\* closed channel only if its read is not ordered after this write.
Stop ==
    /\ UNCHANGED <<poolVars, watchVars, blockVars, links>>
    /\ scanning
    /\ events < MaxEvents
    /\ events' = events + 1
    /\ staleStop' = TRUE
    /\ stopReturned' = TRUE
    /\ clean' = FALSE
    /\ UNCHANGED <<fs, store, progress, spc, hashCalls, scanWrites, pristine,
                   passedAfterStop, verdict>>
    /\ UNCHANGED startVars
    /\ UNCHANGED walkLocals
    /\ UNCHANGED userVars

\* what the unsynchronised `case <-s.stopChan` can observe
StopObservable == staleStop

scanFrame == /\ UNCHANGED <<poolVars, watchVars, blockVars, links>>
             /\ UNCHANGED <<fs, pristine, stopReturned, walkers>>
             /\ UNCHANGED <<scanning, startPend, scansStarted>>
             /\ UNCHANGED userVars

AddProgress(field) == [progress EXCEPT ![field] = @ + 1]

\* a callback whose return ends the walk
EndFileAbort ==
    /\ spc' = "walkdone"
    /\ idx' = 1
    /\ info' = NoInfo
    /\ existing' = Nil
    /\ cur' = NoMedia
    /\ dupResult' = NotDuplicate

\* the callback returns nil: the walk goes to the next file or ends
EndFile ==
    /\ IF idx < NumFiles THEN spc' = "walk" /\ idx' = idx + 1
                         ELSE spc' = "walkdone" /\ idx' = 1
    /\ info' = NoInfo
    /\ existing' = Nil
    /\ cur' = NoMedia
    /\ dupResult' = NotDuplicate

EndWalk ==
    /\ spc' = "walkdone"
    /\ idx' = 1
    /\ info' = NoInfo
    /\ existing' = Nil
    /\ cur' = NoMedia
    /\ dupResult' = NotDuplicate

\* scan(): lines 110-122, the check before a media root is walked
ScanRoot ==
    /\ spc = "root"
    /\ \/ StopObservable /\ EndWalk
       \/ spc' = "walk" /\ UNCHANGED walkLocals
    /\ UNCHANGED <<store, progress, staleStop, hashCalls, scanWrites,
                   passedAfterStop, verdict>>
    /\ NoFault
    /\ scanFrame

\* walk callback: lines 124-145
WalkCheck ==
    /\ spc = "walk"
    /\ \/ \* the cancellation is observed: "scan stopped" ends the walk
          /\ StopObservable
          /\ EndWalk
          /\ NoFault
          /\ UNCHANGED <<progress, staleStop, passedAfterStop>>
       \/ \* the entry could not be read: lines 130-135
          /\ Fault
          /\ progress' = AddProgress("Errors")
          /\ staleStop' = FALSE
          /\ EndFile
          /\ passedAfterStop' = (passedAfterStop \/ stopReturned)
       \/ /\ info' = FileInfo(idx)
          /\ spc' = "count"
          /\ passedAfterStop' = (passedAfterStop \/ stopReturned)
          /\ NoFault
          /\ UNCHANGED <<progress, staleStop, idx, existing, cur, dupResult>>
    /\ UNCHANGED <<store, hashCalls, scanWrites, verdict>>
    /\ scanFrame

\* walk callback: lines 147-151
Count ==
    /\ spc = "count"
    /\ progress' = [progress EXCEPT !.TotalFiles = @ + 1, !.Scanned = @ + 1,
                                    !.CurrentPath = idx]
    /\ staleStop' = FALSE
    /\ spc' = "lookup"
    /\ UNCHANGED <<store, hashCalls, scanWrites, passedAfterStop, verdict>>
    /\ UNCHANGED walkLocals
    /\ NoFault
    /\ scanFrame

\* a lookup that counts its error and goes on with the file
LookupGoOn ==
    /\ spc = "lookup"
    /\ \/ /\ Fault
          /\ progress' = AddProgress("Errors")
          /\ staleStop' = FALSE
          /\ spc' = "build"
          /\ existing' = Nil
          /\ UNCHANGED <<idx, info, cur, dupResult>>
       \/ LET ex == GetMediaByPath(store, idx)
          IN  /\ IF ex # Nil /\ (ex[1].DeletedAt # Nil \/ Unchanged(ex[1], info))
                 THEN EndFile
                 ELSE /\ spc' = "build"
                      /\ existing' = ex
                      /\ UNCHANGED <<idx, info, cur, dupResult>>
              /\ NoFault
              /\ UNCHANGED <<progress, staleStop>>
    /\ UNCHANGED <<store, hashCalls, scanWrites, passedAfterStop, verdict>>
    /\ scanFrame

\* walk callback: lines 153-171
Lookup ==
    /\ spc = "lookup"
    /\ \/ \* GetMediaByPath fails
          /\ Fault
          /\ progress' = AddProgress("Errors")
          /\ staleStop' = FALSE
          /\ EndFile
       \/ LET ex == GetMediaByPath(store, idx)
          IN  /\ IF ex # Nil /\ (ex[1].DeletedAt # Nil \/ Unchanged(ex[1], info))
                 THEN EndFile
                 ELSE /\ spc' = "build"
                      /\ existing' = ex
                      /\ UNCHANGED <<idx, info, cur, dupResult>>
              /\ NoFault
              /\ UNCHANGED <<progress, staleStop>>
    /\ UNCHANGED <<store, hashCalls, scanWrites, passedAfterStop, verdict>>
    /\ scanFrame

\* CalculateHashes is called: line 213
NeedsHash(ex) == IF ex = Nil THEN TRUE ELSE ex[1].Checksum = EmptyString

\* a walk that checks every built record for duplicates, known path or not
BuildAlwaysCheck ==
    /\ spc = "build"
    /\ \E hashFails \in BOOLEAN :
          /\ hashFails => NeedsHash(existing)
          /\ IF hashFails THEN Fault ELSE NoFault
          /\ cur' = BuildMedia(idx, info, existing, fs[idx].content, Now, hashFails)
    /\ hashCalls' = IF NeedsHash(existing) THEN hashCalls + 1 ELSE hashCalls
    /\ spc' = "dup1"
    /\ UNCHANGED <<store, progress, staleStop, idx, info, existing, dupResult,
                   scanWrites, passedAfterStop, verdict>>
    /\ scanFrame

\* walk callback: lines 173-222
Build ==
    /\ spc = "build"
    /\ \E hashFails \in BOOLEAN :
          /\ hashFails => NeedsHash(existing)
          /\ IF hashFails THEN Fault ELSE NoFault
          /\ cur' = BuildMedia(idx, info, existing, fs[idx].content, Now, hashFails)
    /\ hashCalls' = IF NeedsHash(existing) THEN hashCalls + 1 ELSE hashCalls
    /\ spc' = IF existing = Nil THEN "dup1" ELSE "save"
    /\ UNCHANGED <<store, progress, staleStop, idx, info, existing, dupResult,
                   scanWrites, passedAfterStop, verdict>>
    /\ scanFrame

\* CheckDuplicate: lines 1768-1783 of models.go, called at scanner.go:228
Dup1 ==
    /\ spc = "dup1"
    /\ \/ \* FindMediaBySizeRange fails: scanner.go:229-230, then line 257
          /\ cur.Checksum # EmptyString
          /\ Fault
          /\ spc' = "save"
          /\ UNCHANGED <<cur, dupResult>>
       \/ /\ ExactMatches(store, cur.Size, cur.Checksum) # {}
          /\ dupResult' = ExactResult(store, cur.Size, cur.Checksum)
          /\ cur' = [cur EXCEPT !.DuplicateOf = dupResult'.ExistingID]
          /\ spc' = "savedup"
          /\ NoFault
       \/ /\ ExactMatches(store, cur.Size, cur.Checksum) = {}
          /\ spc' = IF IsImage(cur.Type) /\ cur.ImageHash # {} THEN "dup2" ELSE "save"
          /\ NoFault
          /\ UNCHANGED <<cur, dupResult>>
    /\ UNCHANGED <<store, progress, staleStop, idx, info, existing,
                   hashCalls, scanWrites, passedAfterStop, verdict>>
    /\ scanFrame

\* CheckDuplicate: lines 1785-1806 of models.go
Dup2 ==
    /\ spc = "dup2"
    /\ \/ \* ListAllMedia fails
          /\ Fault
          /\ spc' = "save"
          /\ UNCHANGED <<cur, dupResult>>
       \/ /\ SimilarMatches(store, cur.ImageHash, TRUE, ScanThreshold) # {}
          /\ dupResult' = SimilarResult(store, cur.ImageHash, TRUE, ScanThreshold)
          /\ cur' = [cur EXCEPT !.DuplicateOf = dupResult'.ExistingID]
          /\ spc' = "savedup"
          /\ NoFault
       \/ /\ SimilarMatches(store, cur.ImageHash, TRUE, ScanThreshold) = {}
          /\ spc' = "save"
          /\ NoFault
          /\ UNCHANGED <<cur, dupResult>>
    /\ UNCHANGED <<store, progress, staleStop, idx, info, existing,
                   hashCalls, scanWrites, passedAfterStop, verdict>>
    /\ scanFrame

\* the store after the scanner's first persist of a detected duplicate:
\* scanner.go:233-235, SaveMedia of the record with DuplicateOf set
SaveDuplicate(s, m) == SaveMedia(s, m)

\* walk callback: lines 232-238
SaveDup ==
    /\ spc = "savedup"
    /\ \/ \* SaveMedia fails: return nil
          /\ Fault
          /\ EndFile
          /\ UNCHANGED <<store, scanWrites, verdict>>
       \/ /\ store' = SaveDuplicate(store, cur)
          /\ scanWrites' = scanWrites + 1
          /\ verdict' = Put(verdict, cur.ID, dupResult)
          /\ spc' = "softdel"
          /\ NoFault
          /\ UNCHANGED walkLocals
    /\ UNCHANGED <<progress, staleStop, hashCalls, passedAfterStop>>
    /\ scanFrame

\* SoftDeleteMedia, lines 1478-1487 of models.go (called at scanner.go:241):
\* the record is read in a transaction of its own.  Its error is dropped by
\* the scanner, which goes on to count the duplicate (lines 249-252).
SoftDelRead ==
    /\ spc = "softdel"
    /\ \/ \* GetMedia fails
          /\ Fault
          /\ progress' = AddProgress("SkippedDuplicates")
          /\ staleStop' = FALSE
          /\ EndFile
       \/ /\ GetMedia(store, cur.ID) # Nil
          /\ cur' = [GetMedia(store, cur.ID)[1] EXCEPT !.DeletedAt = Ptr(Now)]
          /\ spc' = "softdel2"
          /\ NoFault
          /\ UNCHANGED <<progress, staleStop, idx, info, existing, dupResult>>
    /\ UNCHANGED <<store, hashCalls, scanWrites, passedAfterStop, verdict>>
    /\ scanFrame

\* SoftDeleteMedia, lines 1489-1495 of models.go, then scanner.go:249-252
SoftDelWrite ==
    /\ spc = "softdel2"
    /\ \/ \* the update fails
          /\ Fault
          /\ UNCHANGED <<store, scanWrites>>
       \/ /\ store' = PutRecord(store, cur)
          /\ scanWrites' = scanWrites + 1
          /\ NoFault
    /\ progress' = AddProgress("SkippedDuplicates")
    /\ staleStop' = FALSE
    /\ EndFile
    /\ UNCHANGED <<hashCalls, passedAfterStop, verdict>>
    /\ scanFrame

\* walk callback: lines 256-273
Save ==
    /\ spc = "save"
    /\ \/ \* SaveMedia fails
          /\ Fault
          /\ progress' = AddProgress("Errors")
          /\ UNCHANGED <<store, scanWrites>>
       \/ /\ store' = SaveMedia(store, cur)
          /\ scanWrites' = scanWrites + 1
          /\ progress' = AddProgress(IF existing = Nil THEN "NewFiles"
                                                       ELSE "UpdatedFiles")
          /\ NoFault
    /\ staleStop' = FALSE
    /\ EndFile
    /\ UNCHANGED <<hashCalls, passedAfterStop, verdict>>
    /\ scanFrame

\* an exit of scan() that leaves progress.Running set
ScanExitKeep ==
    /\ UNCHANGED <<poolVars, watchVars, blockVars, links>>
    /\ spc = "walkdone"
    /\ scanning' = FALSE
    /\ walkers' = walkers - 1
    /\ spc' = "none"
    /\ staleStop' = FALSE
    /\ UNCHANGED <<fs, store, progress, startPend, scansStarted, verdict>>
    /\ UNCHANGED scanHistory
    /\ UNCHANGED walkLocals
    /\ UNCHANGED userVars
    /\ NoFault

\* scan(): lines 276-282, then the deferred reset of lines 92-97
ScanExit ==
    /\ UNCHANGED <<poolVars, watchVars, blockVars, links>>
    /\ spc = "walkdone"
    /\ scanning' = FALSE
    /\ progress' = [progress EXCEPT !.Running = FALSE]
    /\ walkers' = walkers - 1
    /\ spc' = "none"
    /\ staleStop' = FALSE
    /\ UNCHANGED <<fs, store, startPend, scansStarted, verdict>>
    /\ UNCHANGED scanHistory
    /\ UNCHANGED walkLocals
    /\ UNCHANGED userVars
    /\ NoFault

(***************************************************************************)
(* The surroundings of the scanner: a user moving records to the trash and *)
(* back (web handlers calling the store), and files changing on disk.      *)
(***************************************************************************)
userFrame == /\ UNCHANGED <<poolVars, watchVars, blockVars, links>>
             /\ UNCHANGED <<fs, progress, staleStop, spc, verdict>>
             /\ UNCHANGED scanHistory
             /\ UNCHANGED startVars
             /\ UNCHANGED walkLocals

\* SoftDeleteMedia, lines 1478-1487, called by a handler
UserSoftDeleteRead(id) ==
    /\ upc = "idle"
    /\ events < MaxEvents
    /\ GetMedia(store, id) # Nil
    /\ urec' = [GetMedia(store, id)[1] EXCEPT !.DeletedAt = Ptr(Now)]
    /\ upc' = "sd_write"
    /\ events' = events + 1
    /\ clean' = FALSE
    /\ UNCHANGED <<store, userRestored>>
    /\ userFrame

\* RestoreMedia, lines 1500-1511, called by a handler
UserRestoreRead(id) ==
    /\ upc = "idle"
    /\ events < MaxEvents
    /\ GetMedia(store, id) # Nil
    /\ GetMedia(store, id)[1].DeletedAt # Nil
    /\ urec' = Restored(GetMedia(store, id)[1])
    /\ upc' = "rs_write"
    /\ events' = events + 1
    /\ clean' = FALSE
    /\ UNCHANGED <<store, userRestored>>
    /\ userFrame

\* the write transaction of SoftDeleteMedia (1489-1495) / RestoreMedia (1513-1519)
UserWrite ==
    /\ upc \in {"sd_write", "rs_write"}
    /\ store' = PutRecord(store, urec)
    /\ userRestored' = IF upc = "rs_write" THEN userRestored \cup {urec.ID}
                                           ELSE userRestored
    /\ upc' = "idle"
    /\ urec' = NoMedia
    /\ UNCHANGED <<events, clean>>
    /\ userFrame

\* a file of the tree is rewritten on disk: new mtime, possibly new bytes
ModifyFile(f) ==
    /\ UNCHANGED <<poolVars, watchVars, blockVars, links>>
    /\ events < MaxEvents
    /\ events' = events + 1
    /\ \E c \in Contents :
          /\ ContentType(c) = ContentType(fs[f].content)
          /\ fs' = [fs EXCEPT ![f] = [content |-> c, mtime |-> @.mtime + 1]]
    /\ pristine' = FALSE
    /\ clean' = FALSE
    /\ UNCHANGED <<store, progress, staleStop, spc, hashCalls, scanWrites,
                   stopReturned, passedAfterStop, verdict>>
    /\ UNCHANGED startVars
    /\ UNCHANGED walkLocals
    /\ UNCHANGED userVars

\* the scanner, the user and the history before any call
ScannerIdle ==
    /\ scanning = FALSE
    /\ progress = ZeroProgress(FALSE, 0)
    /\ staleStop = FALSE
    /\ startPend = 0
    /\ walkers = 0
    /\ spc = "none"
    /\ idx = 1
    /\ info = NoInfo
    /\ existing = Nil
    /\ cur = NoMedia
    /\ dupResult = NotDuplicate
    /\ upc = "idle"
    /\ urec = NoMedia
    /\ events = 0
    /\ scansStarted = 0
    /\ hashCalls = 0
    /\ scanWrites = 0
    /\ pristine = FALSE
    /\ clean = TRUE
    /\ stopReturned = FALSE
    /\ passedAfterStop = FALSE
    /\ userRestored = {}
    /\ verdict = <<>>

EmptyStore == [media |-> <<>>, idxDir |-> <<>>, idxDate |-> <<>>]


(***************************************************************************)
(* Bounds of the pool model.                                               *)
(***************************************************************************)
NumWorkers == 2    \* NewPool(numWorkers, _)
QueueSize == 1     \* NewPool(_, queueSize): capacity of both channels
MaxTasks == 2      \* tasks built by QueueThumbnail calls

Workers == 1..NumWorkers
Callers == {"c1", "c2"}
BlockingCallers == {"b1", "b2"}
Sizes == {"small", "medium", "large"}
ThumbMedia == {GenerateID(1)}

\* key := mediaID + ":" + size
Key(mediaID, size) == <<mediaID, size>>
TaskKey(t) == Key(t.MediaID, t.Size)

\* TaskType: lines 336-343 (two of the four kinds)
TaskTypes == {"generate_thumbnail", "extract_metadata"}

\* p.handlers after NewThumbnailService: the one RegisterHandler call
handlers == {"generate_thumbnail"}

NoTask == [ID |-> 0, Type |-> "", MediaID |-> EmptyString, Size |-> ""]

ZeroStats == [TotalTasks |-> 0, CompletedTasks |-> 0, FailedTasks |-> 0,
              QueuedTasks |-> 0, ActiveWorkers |-> 0]

\* media/thumbnail.go GetThumbnailPath
GetThumbnailPath(mediaID, size) == <<"thumb", mediaID, size>>

\* errors GenerateThumbnail returns, as the fragments of their message
GenerateErrors ==
    {<<"failed to load image", "image: unknown format">>,
     <<"failed to load image", "unexpected EOF">>}

permanentErrors ==
    {"unknown format", "unsupported media type", "image: unknown format",
     "invalid JPEG", "invalid PNG", "corrupt", "format detection failed",
     "unsupported format:"}

\* thumbnail_worker.go:227-249
isPermanentError(err) == \E i \in DOMAIN err : err[i] \in permanentErrors

lifecycle == <<poolStarted, ctxDone, queueClosed, stopPc, expired>>
workerVars == <<wpc, wtask, wm, wok>>
callerVars == <<cpc, ctask, tasksMade>>
poolHistory == <<executed, rejected, lateAccepted, dropped, unhandled>>

(***************************************************************************)
(* worker Pool (scanner/metadata.go, package worker, lines 403-566)        *)
(***************************************************************************)
\* Start(): lines 431-441
PoolStart ==
    /\ ~panicked
    /\ ~poolStarted
    /\ poolStarted' = TRUE
    /\ wpc' = [w \in Workers |-> "idle"]
    /\ UNCHANGED <<ctxDone, queueClosed, stopPc, taskQueue, resultQueue, stats,
                   wtask, wm, wok, panicked, processing, failed>>
    /\ UNCHANGED callerVars
    /\ UNCHANGED expired
    /\ UNCHANGED poolHistory
    /\ UNCHANGED <<scanVars, watchVars, blockVars, links>>

\* Stop(): line 446, p.cancel()
StopCancel ==
    /\ ~panicked
    /\ poolStarted
    /\ stopPc = "idle"
    /\ ctxDone' = TRUE
    /\ stopPc' = "cancelled"
    /\ UNCHANGED <<poolStarted, queueClosed, taskQueue, resultQueue, stats,
                   panicked, processing, failed>>
    /\ UNCHANGED workerVars
    /\ UNCHANGED callerVars
    /\ UNCHANGED expired
    /\ UNCHANGED poolHistory
    /\ \* closing ctx.Done() resolves every select parked on it to that case
       bpc' = [b \in BlockingCallers |->
                  IF bpc[b] = "blocked" THEN "woken" ELSE bpc[b]]
    /\ sendq' = <<>>
    /\ UNCHANGED <<btask, bret, calledFull>>
    /\ UNCHANGED <<scanVars, watchVars, links>>

\* Stop(): line 447, close(p.taskQueue)
StopClose ==
    /\ ~panicked
    /\ stopPc = "cancelled"
    /\ queueClosed' = TRUE
    /\ stopPc' = "closed"
    /\ UNCHANGED <<poolStarted, ctxDone, taskQueue, resultQueue, stats,
                   panicked, processing, failed>>
    /\ UNCHANGED workerVars
    /\ UNCHANGED callerVars
    /\ UNCHANGED expired
    /\ UNCHANGED poolHistory
    /\ UNCHANGED <<scanVars, watchVars, blockVars, links>>

\* Stop() without the wait for the workers
WaitDoneNow == TRUE

\* p.wg.Wait() returns: every worker has called wg.Done()
WaitDone == \A w \in Workers : wpc[w] = "exited"

\* Stop(): lines 448-450, p.wg.Wait(), close(p.resultQueue), return
StopWait ==
    /\ ~panicked
    /\ stopPc = "closed"
    /\ WaitDone
    /\ stopPc' = "returned"
    /\ UNCHANGED <<poolStarted, ctxDone, queueClosed, taskQueue, resultQueue,
                   stats, panicked, processing, failed>>
    /\ UNCHANGED workerVars
    /\ UNCHANGED callerVars
    /\ UNCHANGED expired
    /\ UNCHANGED poolHistory
    /\ UNCHANGED <<scanVars, watchVars, blockVars, links>>

\* a task queue without a capacity
HasRoomAlways == TRUE

\* the send case of Submit's select can proceed: the buffer has room
HasRoom == Len(taskQueue) < QueueSize

\* Submit(): the select of lines 455-466.  Go picks among the ready cases at
\* random and takes `default` only when none is ready; a send on a closed
\* channel is ready and panics.
SubmitSelect(c) ==
    /\ ~panicked
    /\ cpc[c] = "submit"
    /\ \/ \* case <-p.ctx.Done(): return false
          /\ ctxDone
          /\ cpc' = [cpc EXCEPT ![c] = "unmark"]
          /\ UNCHANGED <<taskQueue, panicked, rejected, lateAccepted, dropped,
                     unhandled>>
       \/ \* case p.taskQueue <- task, on the closed channel
          /\ queueClosed
          /\ panicked' = TRUE
          /\ UNCHANGED <<taskQueue, cpc, rejected, lateAccepted, dropped,
                     unhandled>>
       \/ \* case p.taskQueue <- task
          /\ ~queueClosed
          /\ HasRoom
          /\ taskQueue' = Append(taskQueue, ctask[c])
          /\ cpc' = [cpc EXCEPT ![c] = "count"]
          /\ lateAccepted' = (lateAccepted \/ ctxDone)
          /\ UNCHANGED <<panicked, rejected, dropped, unhandled>>
       \/ \* default: the queue is full
          /\ ~ctxDone
          /\ ~queueClosed
          /\ ~HasRoom
          /\ cpc' = [cpc EXCEPT ![c] = "unmark"]
          /\ rejected' = rejected \cup {ctask[c].ID}
          /\ UNCHANGED <<taskQueue, panicked, lateAccepted, dropped,
                     unhandled>>
    /\ UNCHANGED <<resultQueue, stats, processing, failed, ctask, tasksMade,
                   executed>>
    /\ UNCHANGED lifecycle
    /\ UNCHANGED workerVars
    /\ UNCHANGED <<scanVars, watchVars, blockVars, links>>

\* Submit(): lines 459-461, then QueueThumbnail returns true (line 78)
SubmitCount(c) ==
    /\ ~panicked
    /\ cpc[c] = "count"
    /\ stats' = [stats EXCEPT !.TotalTasks = @ + 1, !.QueuedTasks = @ + 1]
    /\ cpc' = [cpc EXCEPT ![c] = "idle"]
    /\ ctask' = [ctask EXCEPT ![c] = NoTask]
    /\ UNCHANGED <<taskQueue, resultQueue, panicked, processing, failed,
                   tasksMade>>
    /\ UNCHANGED lifecycle
    /\ UNCHANGED workerVars
    /\ UNCHANGED poolHistory
    /\ UNCHANGED <<scanVars, watchVars, blockVars, links>>

\* a receive that leaves the task at the head of the queue
DequeuePeek(w) ==
    /\ ~panicked
    /\ wpc[w] = "idle"
    /\ taskQueue # <<>>
    /\ wtask' = [wtask EXCEPT ![w] = Head(taskQueue)]
    /\ stats' = [stats EXCEPT !.ActiveWorkers = @ + 1, !.QueuedTasks = @ - 1]
    /\ wpc' = [wpc EXCEPT ![w] = "call"]
    /\ UNCHANGED <<taskQueue, resultQueue, wm, wok, panicked, processing, failed>>
    /\ UNCHANGED lifecycle
    /\ UNCHANGED callerVars
    /\ UNCHANGED poolHistory
    /\ UNCHANGED <<scanVars, watchVars, blockVars, links>>

\* worker(): the select of lines 501-513, then processTask lines 517-525
Dequeue(w) ==
    /\ ~panicked
    /\ wpc[w] = "idle"
    /\ \/ \* case <-p.ctx.Done()
          /\ ctxDone
          /\ wpc' = [wpc EXCEPT ![w] = "exited"]
          /\ UNCHANGED <<taskQueue, stats, wtask>>
          /\ UNCHANGED blockVars
       \/ \* case task, ok := <-p.taskQueue with a task buffered
          /\ taskQueue # <<>>
          /\ wtask' = [wtask EXCEPT ![w] = Head(taskQueue)]
          /\ IF sendq = <<>>
             THEN /\ taskQueue' = Tail(taskQueue)
                  /\ UNCHANGED blockVars
             ELSE \* the receive hands the freed slot to the oldest parked sender
                  /\ taskQueue' = Append(Tail(taskQueue), btask[Head(sendq)])
                  /\ bpc' = [bpc EXCEPT ![Head(sendq)] = "count"]
                  /\ sendq' = Tail(sendq)
                  /\ UNCHANGED <<btask, bret, calledFull>>
          /\ stats' = [stats EXCEPT !.ActiveWorkers = @ + 1, !.QueuedTasks = @ - 1]
          /\ wpc' = [wpc EXCEPT ![w] = "call"]
       \/ \* the queue is closed and drained: !ok
          /\ taskQueue = <<>>
          /\ queueClosed
          /\ wpc' = [wpc EXCEPT ![w] = "exited"]
          /\ UNCHANGED <<taskQueue, stats, wtask>>
          /\ UNCHANGED blockVars
    /\ UNCHANGED <<resultQueue, wm, wok, panicked, processing, failed>>
    /\ UNCHANGED lifecycle
    /\ UNCHANGED callerVars
    /\ UNCHANGED poolHistory
    /\ UNCHANGED <<scanVars, watchVars, links>>

\* a lookup that finds a handler for every type
HasHandlerAlways(task) == TRUE

\* handler, ok := p.handlers[task.Type]: lines 523-525
HasHandler(task) == task.Type \in handlers

\* processTask(): lines 529-536, the task's type has no handler
NoHandler(w) ==
    /\ ~panicked
    /\ wpc[w] = "call"
    /\ ~HasHandler(wtask[w])
    /\ wok' = [wok EXCEPT ![w] = "err"]
    /\ wpc' = [wpc EXCEPT ![w] = "finish"]
    /\ unhandled' = unhandled \cup {wtask[w].ID}
    /\ UNCHANGED <<taskQueue, resultQueue, stats, wtask, wm, panicked,
                   processing, failed>>
    /\ UNCHANGED <<executed, rejected, lateAccepted, dropped>>
    /\ UNCHANGED lifecycle
    /\ UNCHANGED callerVars
    /\ UNCHANGED <<scanVars, watchVars, blockVars, links>>

\* the 5 minutes of context.WithTimeout (line 538) pass while the handler of
\* worker w has not returned: the task's context is done
Timeout(w) ==
    /\ ~panicked
    /\ wpc[w] \in {"call", "gen", "save", "end"}
    /\ HasHandler(wtask[w])
    /\ wtask[w].ID \notin expired
    /\ expired' = expired \cup {wtask[w].ID}
    /\ UNCHANGED <<poolStarted, ctxDone, queueClosed, stopPc>>
    /\ UNCHANGED <<taskQueue, resultQueue, stats, panicked, processing, failed>>
    /\ UNCHANGED workerVars
    /\ UNCHANGED callerVars
    /\ UNCHANGED poolHistory
    /\ UNCHANGED <<scanVars, watchVars, blockVars, links>>

\* a send that waits for room, as the buffer would then hold the result
PublishWaiting(q, result) == Append(q, result)

\* select { case p.resultQueue <- result: default: }: lines 561-565
Publish(q, result) ==
    IF Len(q) < QueueSize THEN Append(q, result) ELSE q

\* processTask(): lines 554-565 and the deferred line 519
Finish(w) ==
    /\ ~panicked
    /\ wpc[w] = "finish"
    /\ stats' = [stats EXCEPT
                    !.CompletedTasks = IF wok[w] = "ok" THEN @ + 1 ELSE @,
                    !.FailedTasks = IF wok[w] = "ok" THEN @ ELSE @ + 1,
                    !.ActiveWorkers = @ - 1]
    /\ resultQueue' = Publish(resultQueue, wok[w] = "ok")
    /\ wpc' = [wpc EXCEPT ![w] = "idle"]
    /\ wtask' = [wtask EXCEPT ![w] = NoTask]
    /\ wok' = [wok EXCEPT ![w] = ""]
    /\ UNCHANGED <<taskQueue, wm, panicked, processing, failed>>
    /\ UNCHANGED lifecycle
    /\ UNCHANGED callerVars
    /\ dropped' = IF Len(resultQueue) < QueueSize
                  THEN dropped
                  ELSE dropped \cup {wtask[w].ID}
    /\ UNCHANGED <<executed, rejected, lateAccepted, unhandled>>
    /\ UNCHANGED <<scanVars, watchVars, blockVars, links>>

\* processResults(): lines 568-574
ProcessResults ==
    /\ ~panicked
    /\ poolStarted
    /\ resultQueue # <<>>
    /\ resultQueue' = Tail(resultQueue)
    /\ UNCHANGED <<taskQueue, stats, panicked, processing, failed>>
    /\ UNCHANGED lifecycle
    /\ UNCHANGED workerVars
    /\ UNCHANGED callerVars
    /\ UNCHANGED poolHistory
    /\ UNCHANGED <<scanVars, watchVars, blockVars, links>>

\* a caller of SubmitBlocking builds its task
SubmitBlockingCall(b) ==
    /\ ~panicked
    /\ bpc[b] = "idle"
    /\ tasksMade < MaxTasks
    /\ \E id \in ThumbMedia, size \in {"small"}, type \in TaskTypes :
          btask' = [btask EXCEPT ![b] =
                       [ID |-> tasksMade + 1, Type |-> type,
                        MediaID |-> id, Size |-> size]]
    /\ tasksMade' = tasksMade + 1
    /\ bpc' = [bpc EXCEPT ![b] = "select"]
    /\ bret' = [bret EXCEPT ![b] = ""]
    /\ calledFull' = [calledFull EXCEPT ![b] =
                          poolStarted /\ ~ctxDone /\ ~HasRoom]
    /\ UNCHANGED <<taskQueue, resultQueue, stats, panicked, processing, failed,
                   cpc, ctask, sendq>>
    /\ UNCHANGED lifecycle
    /\ UNCHANGED workerVars
    /\ UNCHANGED poolHistory
    /\ UNCHANGED <<scanVars, watchVars, links>>

\* SubmitBlocking(): the select of lines 471-478.  Go picks among the ready
\* cases at random; a send on a closed channel is ready and panics; with no
\* case ready the goroutine parks on both channels.
SubmitBlockingSelect(b) ==
    /\ ~panicked
    /\ bpc[b] = "select"
    /\ \/ \* case <-p.ctx.Done(): return false
          /\ ctxDone
          /\ bpc' = [bpc EXCEPT ![b] = "idle"]
          /\ bret' = [bret EXCEPT ![b] = "false"]
          /\ btask' = [btask EXCEPT ![b] = NoTask]
          /\ UNCHANGED <<taskQueue, panicked, sendq>>
       \/ \* case p.taskQueue <- task, on the closed channel
          /\ queueClosed
          /\ panicked' = TRUE
          /\ bpc' = [bpc EXCEPT ![b] = "panic"]
          /\ UNCHANGED <<taskQueue, btask, bret, sendq>>
       \/ \* case p.taskQueue <- task
          /\ ~queueClosed
          /\ HasRoom
          /\ taskQueue' = Append(taskQueue, btask[b])
          /\ bpc' = [bpc EXCEPT ![b] = "count"]
          /\ UNCHANGED <<panicked, btask, bret, sendq>>
       \/ \* no case is ready: the queue is full and the pool is running
          /\ ~ctxDone
          /\ ~queueClosed
          /\ ~HasRoom
          /\ bpc' = [bpc EXCEPT ![b] = "blocked"]
          /\ sendq' = Append(sendq, b)
          /\ UNCHANGED <<taskQueue, panicked, btask, bret>>
    /\ UNCHANGED <<resultQueue, stats, processing, failed, calledFull>>
    /\ UNCHANGED lifecycle
    /\ UNCHANGED workerVars
    /\ UNCHANGED callerVars
    /\ UNCHANGED poolHistory
    /\ UNCHANGED <<scanVars, watchVars, links>>

\* SubmitBlocking(): lines 475-477 after the send, or line 473 after the
\* parked select was resolved by the cancellation
SubmitBlockingReturn(b) ==
    /\ ~panicked
    /\ bpc[b] \in {"count", "woken"}
    /\ stats' = IF bpc[b] = "count"
                THEN [stats EXCEPT !.TotalTasks = @ + 1, !.QueuedTasks = @ + 1]
                ELSE stats
    /\ bret' = [bret EXCEPT ![b] = IF bpc[b] = "count" THEN "true" ELSE "false"]
    /\ bpc' = [bpc EXCEPT ![b] = "idle"]
    /\ btask' = [btask EXCEPT ![b] = NoTask]
    /\ UNCHANGED <<taskQueue, resultQueue, panicked, processing, failed, sendq,
                   calledFull>>
    /\ UNCHANGED lifecycle
    /\ UNCHANGED workerVars
    /\ UNCHANGED callerVars
    /\ UNCHANGED poolHistory
    /\ UNCHANGED <<scanVars, watchVars, links>>

(***************************************************************************)
(* ThumbnailService (worker/thumbnail_worker.go)                           *)
(***************************************************************************)
\* QueueThumbnail returns false at once: lines 51-58
HasFailed(key) == key \in DOMAIN failed
IsProcessing(key) == key \in processing
\* QueueThumbnail without the in-flight test
QueueRefusedFailedOnly(key) == HasFailed(key)

\* QueueThumbnail without the permanent-failure test
QueueRefusedProcessingOnly(key) == IsProcessing(key)

QueueRefused(key) == HasFailed(key) \/ IsProcessing(key)

\* QueueThumbnail(): lines 46-69.  A refused call returns false and leaves
\* everything as it was.
QueueThumbnail(c, mediaID, size) ==
    /\ ~panicked
    /\ cpc[c] = "idle"
    /\ IF QueueRefused(Key(mediaID, size))
       THEN UNCHANGED <<processing, cpc, ctask, tasksMade>>
       ELSE /\ tasksMade < MaxTasks
            /\ processing' = processing \cup {Key(mediaID, size)}
            /\ tasksMade' = tasksMade + 1
            /\ ctask' = [ctask EXCEPT ![c] =
                            [ID |-> tasksMade + 1, Type |-> "generate_thumbnail",
                             MediaID |-> mediaID, Size |-> size]]
            /\ cpc' = [cpc EXCEPT ![c] = "submit"]
    /\ UNCHANGED <<taskQueue, resultQueue, stats, panicked, failed>>
    /\ UNCHANGED lifecycle
    /\ UNCHANGED workerVars
    /\ UNCHANGED poolHistory
    /\ UNCHANGED <<scanVars, watchVars, blockVars, links>>

\* a rejected submission that leaves the in-flight mark in place
UnmarkedNever(key) == processing

\* the in-flight set after delete(s.processing, key): line 74
Unmarked(key) == processing \ {key}

\* QueueThumbnail(): lines 71-76, the pool refused the task
Unmark(c) ==
    /\ ~panicked
    /\ cpc[c] = "unmark"
    /\ processing' = Unmarked(TaskKey(ctask[c]))
    /\ cpc' = [cpc EXCEPT ![c] = "idle"]
    /\ ctask' = [ctask EXCEPT ![c] = NoTask]
    /\ UNCHANGED <<taskQueue, resultQueue, stats, panicked, failed, tasksMade>>
    /\ UNCHANGED lifecycle
    /\ UNCHANGED workerVars
    /\ UNCHANGED poolHistory
    /\ UNCHANGED <<scanVars, watchVars, blockVars, links>>

handlerFrame == /\ UNCHANGED <<taskQueue, resultQueue, stats, panicked, wtask,
                               rejected, lateAccepted, dropped,
                     unhandled>>
                /\ UNCHANGED lifecycle
                /\ UNCHANGED callerVars
                /\ UNCHANGED <<scanOnly, watchVars, blockVars, links>>

\* processTask(): lines 538-539 call the handler; handleThumbnail(): lines
\* 132-146
HandlerBegin(w) ==
    /\ ~panicked
    /\ wpc[w] = "call"
    /\ HasHandler(wtask[w])
    /\ executed' = executed \cup {wtask[w].ID}
    /\ \/ \* the store read fails (an I/O error can always occur), finds
          \* nothing, or the context is done: the handler returns an error
          /\ wok' = [wok EXCEPT ![w] = "err"]
          /\ wpc' = [wpc EXCEPT ![w] = "end"]
          /\ UNCHANGED wm
       \/ /\ GetMedia(store, wtask[w].MediaID) # Nil
          /\ ~ctxDone
          /\ wtask[w].ID \notin expired
          /\ wm' = [wm EXCEPT ![w] = GetMedia(store, wtask[w].MediaID)[1]]
          /\ wpc' = [wpc EXCEPT ![w] = "gen"]
          /\ UNCHANGED wok
    /\ UNCHANGED <<store, processing, failed>>
    /\ handlerFrame

\* a marking that leaves the in-flight mark of the pair in place
markAsFailedKeep(key, errMsg) ==
    /\ failed' = Put(failed, key, errMsg)
    /\ UNCHANGED processing

\* markAsFailed(): lines 217-224
markAsFailed(key, errMsg) ==
    /\ failed' = Put(failed, key, errMsg)
    /\ processing' = processing \ {key}

\* handleThumbnail(): lines 148-168, GenerateThumbnail and its failure
Generate(w) ==
    /\ ~panicked
    /\ wpc[w] = "gen"
    /\ \/ /\ wpc' = [wpc EXCEPT ![w] = "save"]
          /\ UNCHANGED <<wok, processing, failed>>
       \/ \E err \in GenerateErrors :
             /\ IF isPermanentError(err)
                THEN markAsFailed(TaskKey(wtask[w]), err)
                ELSE UNCHANGED <<processing, failed>>
             /\ wok' = [wok EXCEPT ![w] = "err"]
             /\ wpc' = [wpc EXCEPT ![w] = "end"]
    /\ UNCHANGED <<store, wm, executed>>
    /\ handlerFrame

\* handleThumbnail(): lines 172-178, the size-specific field
WithThumb(m, size, thumbPath) ==
    CASE size = "small" -> [m EXCEPT !.ThumbSmall = thumbPath]
      [] size = "large" -> [m EXCEPT !.ThumbLarge = thumbPath]
      [] OTHER -> m

\* handleThumbnail(): lines 170-182
SaveThumb(w) ==
    /\ ~panicked
    /\ wpc[w] = "save"
    /\ store' = SaveMedia(store, WithThumb(wm[w], wtask[w].Size,
                              GetThumbnailPath(wtask[w].MediaID, wtask[w].Size)))
    /\ wok' = [wok EXCEPT ![w] = "ok"]
    /\ wpc' = [wpc EXCEPT ![w] = "end"]
    /\ UNCHANGED <<wm, processing, failed, executed>>
    /\ handlerFrame

\* a deferred function that leaves the in-flight mark in place
ClearProcessingNever(key) == processing

\* the in-flight set after the deferred function of lines 122-130
ClearProcessing(key) ==
    IF HasFailed(key) THEN processing ELSE processing \ {key}

\* handleThumbnail(): the deferred function of lines 122-130, then the return
HandlerEnd(w) ==
    /\ ~panicked
    /\ wpc[w] = "end"
    /\ processing' = ClearProcessing(TaskKey(wtask[w]))
    /\ wpc' = [wpc EXCEPT ![w] = "finish"]
    /\ wm' = [wm EXCEPT ![w] = NoMedia]
    /\ UNCHANGED <<store, wok, failed, executed>>
    /\ handlerFrame

(***************************************************************************)
(* Watcher (unnamed/part_001)                                              *)
(***************************************************************************)
MaxFsEvents == 3     \* filesystem events handleFSEvent stores
NumHandlers == 2     \* handlers registered with AddHandler before Start()

WatchPaths == {"A.jpg", "B.jpg", "notes.txt"}
Handlers == 1..NumHandlers

\* the fsnotify.Op bit sets explored
FsOps == {{"Write"}, {"Chmod"}}

\* handleFSEvent: the switch of lines 160-171; "" stands for the default
\* branch, which returns
OperationOf(bits) ==
    IF "Create" \in bits THEN "create"
    ELSE IF "Write" \in bits THEN "modify"
    ELSE IF "Remove" \in bits THEN "delete"
    ELSE IF "Rename" \in bits THEN "rename"
    ELSE ""

\* strings.ToLower(filepath.Ext(event.Name))
ExtOf(path) == IF path = "notes.txt" THEN ".txt" ELSE ".jpg"

\* isSupportedExtension: lines 236-244, over cfg.AllExtensions()
isSupportedExtension(ext) == ext \in {".jpg", ".png", ".mp4", ".cr2"}

\* os.Stat(event.Name): the tree watched here holds no directory
StatIsDir(path) == FALSE

\* handleFSEvent drops the event: lines 160-181
Dropped(path, bits) ==
    \/ OperationOf(bits) = ""
    \/ ~isSupportedExtension(ExtOf(path)) /\ ~StatIsDir(path)

Remove(f, k) == [x \in DOMAIN f \ {k} |-> f[x]]

NoEvents == <<>>

watchHistory == <<accepted, burst, quiet, invoked, invokedAfterStop>>
watchLife == <<wRunning, wStopPc, loopPc>>
watchFrame == UNCHANGED <<scanVars, poolVars, blockVars, links>>

\* Start(): lines 68-75, up to w.mu.Unlock().  A Start() on a running watcher
\* returns nil and changes nothing; the watcher is started once.
WatcherStart ==
    /\ loopPc = "none"
    /\ IF wRunning
       THEN UNCHANGED <<wRunning, loopPc>>
       ELSE wRunning' = TRUE /\ loopPc' = "spawn"
    /\ UNCHANGED <<wStopPc, pendingEvents, timerArmed, timersMade, callbacks>>
    /\ UNCHANGED watchHistory
    /\ watchFrame

\* Start(): line 91, `go w.eventLoop()`
GoEventLoop ==
    /\ loopPc = "spawn"
    /\ loopPc' = "run"
    /\ UNCHANGED <<wRunning, wStopPc, pendingEvents, timerArmed, timersMade,
                   callbacks>>
    /\ UNCHANGED watchHistory
    /\ watchFrame

\* Stop(): lines 99-106
WatcherStopFlag ==
    /\ wStopPc = "idle"
    /\ wRunning
    /\ wRunning' = FALSE
    /\ wStopPc' = "flagged"
    /\ UNCHANGED <<loopPc, pendingEvents, timerArmed, timersMade, callbacks>>
    /\ UNCHANGED watchHistory
    /\ watchFrame

\* Stop(): line 108, close(w.stopChan)
WatcherStopSignal ==
    /\ wStopPc = "flagged"
    /\ wStopPc' = "signalled"
    /\ UNCHANGED <<wRunning, loopPc, pendingEvents, timerArmed, timersMade,
                   callbacks>>
    /\ UNCHANGED watchHistory
    /\ watchFrame

\* Stop(): lines 109-112, w.watcher.Close() and the return
WatcherStopClose ==
    /\ wStopPc = "signalled"
    /\ wStopPc' = "returned"
    /\ UNCHANGED <<wRunning, loopPc, pendingEvents, timerArmed, timersMade,
                   callbacks>>
    /\ UNCHANGED watchHistory
    /\ watchFrame

\* eventLoop(): lines 140-146, the loop returns on the closed stopChan or on
\* the closed Events channel
EventLoopExit ==
    /\ loopPc = "run"
    /\ wStopPc \in {"signalled", "returned"}
    /\ loopPc' = "exited"
    /\ UNCHANGED <<wRunning, wStopPc, pendingEvents, timerArmed, timersMade,
                   callbacks>>
    /\ UNCHANGED watchHistory
    /\ watchFrame

\* eventLoop(): lines 143-147 receive an event (possible until the Events
\* channel is closed) and handleFSEvent(): lines 157-215 handles it.  The
\* stored event replaces the pending one of its path; the timer is stopped,
\* which prevents its firing only if it has not fired yet, and a new timer
\* is created.
handleFSEvent(path, bits) ==
    /\ loopPc = "run"
    /\ wStopPc # "returned"
    /\ IF Dropped(path, bits)
       THEN UNCHANGED <<pendingEvents, timerArmed, timersMade, accepted,
                        burst, quiet>>
       ELSE /\ Len(accepted) < MaxFsEvents
            /\ pendingEvents' =
                  Put(pendingEvents, path,
                      [Path |-> path, Operation |-> OperationOf(bits),
                       IsDir |-> StatIsDir(path), Time |-> Len(accepted) + 1])
            /\ timersMade' = timersMade + 1
            /\ timerArmed' = timersMade + 1
            /\ burst' = IF quiet[path] THEN burst
                        ELSE [burst EXCEPT ![path] = @ + 1]
            /\ accepted' = Append(accepted,
                              [Path |-> path, Burst |-> burst'[path]])
            /\ quiet' = [quiet EXCEPT ![path] = TRUE]
    /\ UNCHANGED <<callbacks, invoked, invokedAfterStop>>
    /\ UNCHANGED watchLife
    /\ watchFrame

\* the runtime fires the timer: processPendingEvents starts in a goroutine
\* of its own (time.AfterFunc at line 213)
TimerFires ==
    /\ timerArmed # 0
    /\ callbacks' = Put(callbacks, timerArmed,
                        [pc |-> "lock", events |-> NoEvents, cur |-> "", h |-> 1])
    /\ timerArmed' = 0
    /\ quiet' = [p \in WatchPaths |-> FALSE]
    /\ UNCHANGED <<pendingEvents, timersMade, accepted, burst, invoked,
                   invokedAfterStop>>
    /\ UNCHANGED watchLife
    /\ watchFrame

\* a callback that reads the pending map and leaves it in place
TakePendingKeep(id) ==
    /\ id \in DOMAIN callbacks
    /\ callbacks[id].pc = "lock"
    /\ callbacks' = IF DOMAIN pendingEvents = {}
                    THEN Remove(callbacks, id)
                    ELSE [callbacks EXCEPT ![id].pc = "range",
                                           ![id].events = pendingEvents]
    /\ UNCHANGED <<pendingEvents, timerArmed, timersMade>>
    /\ UNCHANGED watchHistory
    /\ UNCHANGED watchLife
    /\ watchFrame

\* processPendingEvents(): lines 218-225, the pending map is taken and
\* replaced under debounceMu and the handlers are read; with nothing pending
\* the call returns
TakePending(id) ==
    /\ id \in DOMAIN callbacks
    /\ callbacks[id].pc = "lock"
    /\ pendingEvents' = NoEvents
    /\ callbacks' = IF DOMAIN pendingEvents = {}
                    THEN Remove(callbacks, id)
                    ELSE [callbacks EXCEPT ![id].pc = "range",
                                           ![id].events = pendingEvents]
    /\ UNCHANGED <<timerArmed, timersMade>>
    /\ UNCHANGED watchHistory
    /\ UNCHANGED watchLife
    /\ watchFrame

\* processPendingEvents(): lines 227-233, one handler call of the two loops;
\* the map is ranged over in any order
InvokeHandler(id, path) ==
    /\ id \in DOMAIN callbacks
    /\ callbacks[id].pc = "range"
    /\ path \in DOMAIN callbacks[id].events
    /\ callbacks[id].cur \in {"", path}
    /\ LET c == callbacks[id]
           ev == c.events[path]
       IN  /\ invoked' = [invoked EXCEPT ![<<c.h, ev.Time>>] = @ + 1]
           /\ callbacks' =
                 IF c.h < NumHandlers
                 THEN [callbacks EXCEPT ![id].cur = path, ![id].h = c.h + 1]
                 ELSE IF DOMAIN c.events = {path}
                 THEN Remove(callbacks, id)
                 ELSE [callbacks EXCEPT ![id].cur = "", ![id].h = 1,
                                        ![id].events = Remove(c.events, path)]
    /\ invokedAfterStop' = (invokedAfterStop \/ wStopPc = "returned")
    /\ UNCHANGED <<pendingEvents, timerArmed, timersMade, accepted, burst, quiet>>
    /\ UNCHANGED watchLife
    /\ watchFrame

(***************************************************************************)
(* Initial states and specifications                                       *)
(***************************************************************************)
\* NewWatcher (lines 46-60) with the handlers registered
WatcherIdle ==
    /\ wRunning = FALSE
    /\ wStopPc = "idle"
    /\ loopPc = "none"
    /\ pendingEvents = NoEvents
    /\ timerArmed = 0
    /\ timersMade = 0
    /\ callbacks = <<>>
    /\ accepted = <<>>
    /\ burst = [p \in WatchPaths |-> 0]
    /\ quiet = [p \in WatchPaths |-> FALSE]
    /\ invoked = [k \in Handlers \X (1..MaxFsEvents) |-> 0]
    /\ invokedAfterStop = FALSE

(***************************************************************************)
(* storage/models.go: tags, favourites, albums and DeleteMedia             *)
(***************************************************************************)
TagNames == {"t1"}
Users == {"u1"}
Albums == {"al1"}

\* the buckets as SaveAlbum leaves them for empty albums
NoLinks ==
    [idxTag |-> <<>>, favorites |-> <<>>, userFav |-> <<>>,
     albums |-> [a \in Albums |-> <<>>]]

Without(ids, id) == SelectSeq(ids, LAMBDA x : x # id)

removeFromIndex(bucket, key, id) ==
    IF key \notin DOMAIN bucket THEN bucket
    ELSE IF Without(bucket[key], id) = <<>> THEN Remove(bucket, key)
    ELSE Put(bucket, key, Without(bucket[key], id))

storeFrame == UNCHANGED <<scanOnly, poolVars, watchVars, blockVars>>

\* AddTagsToMedia with one tag (the tag counters of bucketTags are left out)
AddTagsToMedia(mediaID, tag) ==
    /\ GetMedia(store, mediaID) # Nil
    /\ store' = PutRecord(store, [GetMedia(store, mediaID)[1] EXCEPT
                                     !.Tags = @ \cup {tag}])
    /\ links' = [links EXCEPT !.idxTag = addToIndex(@, tag, mediaID)]
    /\ storeFrame

SetFavorite(mediaID, isFavorite) ==
    /\ GetMedia(store, mediaID) # Nil
    /\ GetMedia(store, mediaID)[1].IsFavorite # isFavorite
    /\ store' = PutRecord(store, [GetMedia(store, mediaID)[1] EXCEPT
                                     !.IsFavorite = isFavorite])
    /\ links' = [links EXCEPT !.favorites =
                    IF isFavorite THEN addToIndex(@, "global", mediaID)
                    ELSE removeFromIndex(@, "global", mediaID)]
    /\ storeFrame

SetUserFavorite(userID, mediaID, isFavorite) ==
    /\ GetMedia(store, mediaID) # Nil
    /\ LET ids == IF userID \in DOMAIN links.userFav
                  THEN links.userFav[userID] ELSE <<>>
       IN  links' = [links EXCEPT !.userFav =
                       Put(@, userID,
                           IF ~isFavorite THEN Without(ids, mediaID)
                           ELSE IF \E i \in DOMAIN ids : ids[i] = mediaID
                                THEN ids ELSE Append(ids, mediaID))]
    /\ UNCHANGED store
    /\ storeFrame

\* AddMediaToAlbum with one media ID; the album exists
AddMediaToAlbum(albumID, mediaID) ==
    /\ links' = [links EXCEPT !.albums[albumID] =
                    IF \E i \in DOMAIN @ : @[i] = mediaID
                    THEN @ ELSE Append(@, mediaID)]
    /\ UNCHANGED store
    /\ storeFrame

\* DeleteMedia of a stored record: albums, global favourites, per-user
\* favourites, the tag counters (left out), then the directory index, the
\* date index and the record
DeleteMedia(id) ==
    /\ GetMedia(store, id) # Nil
    /\ links' = [idxTag |-> links.idxTag,
                 favorites |-> removeFromIndex(links.favorites, "global", id),
                 userFav |-> [u \in DOMAIN links.userFav |->
                                 Without(links.userFav[u], id)],
                 albums |-> [a \in Albums |-> Without(links.albums[a], id)]]
    /\ LET media == GetMedia(store, id)[1]
       IN  store' = [media |-> Remove(store.media, id),
                     idxDir |-> removeFromIndex(store.idxDir, media.Dir, id),
                     idxDate |-> IF media.TakenAt > 1900
                                 THEN removeFromIndex(store.idxDate,
                                                      media.TakenAt, id)
                                 ELSE store.idxDate]
    /\ storeFrame

PoolIdle ==
    /\ bpc = [b \in BlockingCallers |-> "idle"]
    /\ btask = [b \in BlockingCallers |-> NoTask]
    /\ bret = [b \in BlockingCallers |-> ""]
    /\ sendq = <<>>
    /\ calledFull = [b \in BlockingCallers |-> FALSE]
    /\ poolStarted = FALSE
    /\ ctxDone = FALSE
    /\ expired = {}
    /\ queueClosed = FALSE
    /\ stopPc = "idle"
    /\ taskQueue = <<>>
    /\ resultQueue = <<>>
    /\ stats = ZeroStats
    /\ wpc = [w \in Workers |-> "none"]
    /\ wtask = [w \in Workers |-> NoTask]
    /\ wm = [w \in Workers |-> NoMedia]
    /\ wok = [w \in Workers |-> ""]
    /\ panicked = FALSE
    /\ processing = {}
    /\ failed = <<>>
    /\ cpc = [c \in Callers |-> "idle"]
    /\ ctask = [c \in Callers |-> NoTask]
    /\ tasksMade = 0
    /\ executed = {}
    /\ rejected = {}
    /\ lateAccepted = FALSE
    /\ dropped = {}
    /\ unhandled = {}

\* the scanner over an empty store and a tree of NumFiles files
InitScan ==
    /\ fs \in [Files -> [content : Contents, mtime : {1}]]
    /\ store = EmptyStore
    /\ links = NoLinks
    /\ ScannerIdle
    /\ PoolIdle
    /\ WatcherIdle

NextScan ==
    \/ Start \/ GoScan \/ Stop
    \/ ScanRoot \/ WalkCheck \/ Count \/ Lookup \/ Build \/ Dup1 \/ Dup2
    \/ SaveDup \/ SoftDelRead \/ SoftDelWrite \/ Save \/ ScanExit
    \/ \E id \in IDs : UserSoftDeleteRead(id)
    \/ \E id \in IDs : UserRestoreRead(id)
    \/ UserWrite
    \/ \E f \in Files : ModifyFile(f)

SpecScan == InitScan /\ [][NextScan]_vars

\* the store after a scan of a tree of images
RECURSIVE ScannedStore(_)
ScannedStore(n) ==
    IF n = 0 THEN EmptyStore
    ELSE SaveMedia(ScannedStore(n - 1),
                   BuildMedia(n, [mtime |-> 1, size |-> ContentSize("imgA"),
                                  type |-> ContentType("imgA")],
                              Nil, "imgA", 1, FALSE))

\* the pool and the thumbnail service over a scanned store
InitPool ==
    /\ fs = [f \in Files |-> [content |-> "imgA", mtime |-> 1]]
    /\ store = ScannedStore(NumFiles)
    /\ links = NoLinks
    /\ ScannerIdle
    /\ PoolIdle
    /\ WatcherIdle

\* every action of the pool is guarded by ~panicked: a panic ends the process
NextPool ==
    \/ PoolStart \/ StopCancel \/ StopClose \/ StopWait
    \/ \E c \in Callers, id \in ThumbMedia, size \in Sizes :
           QueueThumbnail(c, id, size)
    \/ \E c \in Callers : SubmitSelect(c)
    \/ \E c \in Callers : SubmitCount(c)
    \/ \E c \in Callers : Unmark(c)
    \/ \E w \in Workers : Dequeue(w)
    \/ \E w \in Workers : Timeout(w)
    \/ \E w \in Workers : HandlerBegin(w)
    \/ \E w \in Workers : Generate(w)
    \/ \E w \in Workers : SaveThumb(w)
    \/ \E w \in Workers : HandlerEnd(w)
    \/ \E w \in Workers : Finish(w)
    \/ ProcessResults

SpecPool == InitPool /\ [][NextPool]_vars

\* every goroutine that can take a step is scheduled in the end: the
\* workers, the callers inside QueueThumbnail and a Stop() that has begun
FairPool ==
    /\ \A w \in Workers :
          /\ WF_vars(Dequeue(w)) /\ WF_vars(HandlerBegin(w))
          /\ WF_vars(Generate(w)) /\ WF_vars(SaveThumb(w))
          /\ WF_vars(HandlerEnd(w)) /\ WF_vars(Finish(w))
    /\ \A c \in Callers :
          /\ WF_vars(SubmitSelect(c)) /\ WF_vars(SubmitCount(c))
          /\ WF_vars(Unmark(c))
    /\ WF_vars(StopClose) /\ WF_vars(StopWait)

SpecPoolLive == SpecPool /\ FairPool

\* the watcher beside an idle scanner and an idle pool
InitWatch ==
    /\ fs = [f \in Files |-> [content |-> "imgA", mtime |-> 1]]
    /\ store = EmptyStore
    /\ links = NoLinks
    /\ ScannerIdle
    /\ PoolIdle
    /\ WatcherIdle

NextWatch ==
    \/ WatcherStart \/ GoEventLoop
    \/ WatcherStopFlag \/ WatcherStopSignal \/ WatcherStopClose
    \/ EventLoopExit
    \/ \E path \in WatchPaths, bits \in FsOps : handleFSEvent(path, bits)
    \/ TimerFires
    \/ \E id \in 1..MaxFsEvents : TakePending(id)
    \/ \E id \in 1..MaxFsEvents, path \in WatchPaths : InvokeHandler(id, path)

SpecWatch == InitWatch /\ [][NextWatch]_vars

\* the runtime fires an armed timer and schedules the goroutine of every
\* processPendingEvents call
FairWatch ==
    /\ WF_vars(TimerFires)
    /\ \A id \in 1..MaxFsEvents :
          /\ WF_vars(TakePending(id))
          /\ WF_vars(\E path \in WatchPaths : InvokeHandler(id, path))

SpecWatchLive == SpecWatch /\ FairWatch

\* the pool over a scanned store, used through SubmitBlocking
InitBlock ==
    /\ fs = [f \in Files |-> [content |-> "imgA", mtime |-> 1]]
    /\ store = ScannedStore(NumFiles)
    /\ links = NoLinks
    /\ ScannerIdle
    /\ PoolIdle
    /\ WatcherIdle

NextBlock ==
    \/ PoolStart \/ StopCancel \/ StopClose \/ StopWait
    \/ \E b \in BlockingCallers : SubmitBlockingCall(b)
    \/ \E b \in BlockingCallers : SubmitBlockingSelect(b)
    \/ \E b \in BlockingCallers : SubmitBlockingReturn(b)
    \/ \E w \in Workers : Dequeue(w)
    \/ \E w \in Workers : NoHandler(w)
    \/ \E w \in Workers : HandlerBegin(w)
    \/ \E w \in Workers : Generate(w)
    \/ \E w \in Workers : SaveThumb(w)
    \/ \E w \in Workers : HandlerEnd(w)
    \/ \E w \in Workers : Finish(w)
    \/ ProcessResults

\* every goroutine that can take a step is scheduled in the end; when a call
\* is made and whether Stop() is called is up to the program
FairBlock ==
    /\ \A b \in BlockingCallers :
          WF_vars(SubmitBlockingSelect(b)) /\ WF_vars(SubmitBlockingReturn(b))
    /\ \A w \in Workers :
          /\ WF_vars(Dequeue(w)) /\ WF_vars(HandlerBegin(w))
          /\ WF_vars(NoHandler(w))
          /\ WF_vars(Generate(w)) /\ WF_vars(SaveThumb(w))
          /\ WF_vars(HandlerEnd(w)) /\ WF_vars(Finish(w))
    /\ WF_vars(StopClose) /\ WF_vars(StopWait)

SpecBlock == InitBlock /\ [][NextBlock]_vars /\ FairBlock

\* the store after a scan, used by the web handlers
InitStore ==
    /\ fs = [f \in Files |-> [content |-> "imgA", mtime |-> 1]]
    /\ store = ScannedStore(NumFiles)
    /\ links = NoLinks
    /\ ScannerIdle
    /\ PoolIdle
    /\ WatcherIdle

NextStore ==
    \/ \E id \in IDs, tag \in TagNames : AddTagsToMedia(id, tag)
    \/ \E id \in IDs, isFavorite \in BOOLEAN : SetFavorite(id, isFavorite)
    \/ \E u \in Users, id \in IDs, isFavorite \in BOOLEAN :
           SetUserFavorite(u, id, isFavorite)
    \/ \E a \in Albums, id \in IDs : AddMediaToAlbum(a, id)
    \/ \E id \in IDs : DeleteMedia(id)

SpecStore == InitStore /\ [][NextStore]_vars

\* the thumbnail service at work while the web handlers edit the records:
\* one caller of QueueThumbnail and one of the workers take steps
NextEdit ==
    \/ PoolStart
    \/ \E c \in {"c1"}, id \in ThumbMedia, size \in Sizes :
           QueueThumbnail(c, id, size)
    \/ \E c \in {"c1"} : SubmitSelect(c)
    \/ \E c \in {"c1"} : SubmitCount(c)
    \/ \E c \in {"c1"} : Unmark(c)
    \/ \E w \in {1} : Dequeue(w)
    \/ \E w \in {1} : HandlerBegin(w)
    \/ \E w \in {1} : Generate(w)
    \/ \E w \in {1} : SaveThumb(w)
    \/ \E w \in {1} : HandlerEnd(w)
    \/ \E w \in {1} : Finish(w)
    \/ \E id \in ThumbMedia : UserSoftDeleteRead(id)
    \/ \E id \in ThumbMedia : UserRestoreRead(id)
    \/ UserWrite
    \/ \E id \in ThumbMedia, isFavorite \in BOOLEAN : SetFavorite(id, isFavorite)
    \/ \E id \in ThumbMedia, tag \in TagNames : AddTagsToMedia(id, tag)

SpecEdit == InitStore /\ [][NextEdit]_vars

(***************************************************************************)
(* Properties of the scanner, checked under SpecScan                       *)
(***************************************************************************)
ScanAtRest == ~scanning /\ startPend = 0 /\ walkers = 0

\* C1: at most one scan walk exists at a time (launched or about to be
\* launched); the scanning flag is set exactly while one exists; a Start()
\* issued while a scan is running launches nothing, and a scan is launched
\* only from a state in which none is running.
C1_SingleFlight ==
    /\ [](startPend + walkers <= 1 /\ (scanning <=> startPend + walkers = 1))
    /\ [][/\ scanning => /\ scansStarted' = scansStarted
                         /\ startPend' + walkers' <= startPend + walkers
          /\ scansStarted' # scansStarted =>
                /\ ~scanning /\ startPend = 0 /\ walkers = 0
                /\ scanning' /\ startPend' = 1]_vars

\* a second scan is walking after the first one ended
C1_Witness == walkers = 1 /\ scansStarted >= 2 /\ spc = "walk"

\* C4 (as claimed): every record the scanner marked as a duplicate is
\* soft-deleted in every state of the store, unless a user restored it.
C4_DuplicateNeverLive ==
    \A id \in DOMAIN store.media :
        (store.media[id].DuplicateOf # EmptyString /\ id \notin userRestored)
            => store.media[id].DeletedAt # Nil

\* C5: after an undisturbed scan of an empty store, of the files with the
\* same bytes the first one visited that is live is the original: every later
\* one is recorded soft-deleted with DuplicateOf naming the original, under
\* the verdict exact with distance 0, and the original is no duplicate.  With
\* two files of identical bytes: one live record and one soft-deleted.
C5_ExactDuplicate ==
    (clean /\ ScanAtRest /\ scansStarted >= 1) =>
        /\ \A f, g \in Files :
              (/\ f < g
               /\ fs[f].content = fs[g].content
               /\ GenerateID(f) \in ListAllMedia(store)) =>
                  /\ GenerateID(g) \in DOMAIN store.media
                  /\ store.media[GenerateID(g)].DeletedAt # Nil
                  /\ store.media[GenerateID(g)].DuplicateOf = GenerateID(f)
                  /\ GenerateID(g) \in DOMAIN verdict
                  /\ verdict[GenerateID(g)] =
                        [IsDuplicate |-> TRUE, Type |-> "exact",
                         ExistingID |-> GenerateID(f), Distance |-> 0]
                  /\ store.media[GenerateID(f)].DuplicateOf = EmptyString
        /\ (\A f \in Files : fs[f].content = fs[1].content) =>
              /\ ListAllMedia(store) = {GenerateID(1)}
              /\ DOMAIN store.media = IDs

\* two files of identical bytes, scanned: the second is the trashed duplicate
C5_Witness ==
    /\ clean /\ ScanAtRest /\ scansStarted >= 1
    /\ fs[1].content = fs[2].content
    /\ GenerateID(2) \in DOMAIN store.media
    /\ store.media[GenerateID(2)].DeletedAt # Nil
    /\ store.media[GenerateID(2)].DuplicateOf = GenerateID(1)
    /\ GenerateID(1) \in ListAllMedia(store)

\* C6: a scan started over a tree whose every file is recorded with its
\* current mtime and size, and in which no file changes, counts no new and no
\* updated file, computes no hash and writes no record.
C6_UnchangedIdempotent ==
    pristine =>
        /\ progress.NewFiles = 0
        /\ progress.UpdatedFiles = 0
        /\ progress.SkippedDuplicates = 0
        /\ hashCalls = 0
        /\ scanWrites = 0

\* the second scan has visited every file of the unchanged tree and ended
C6_Witness ==
    /\ pristine /\ ScanAtRest /\ scansStarted >= 2
    /\ progress.Scanned = NumFiles

\* C7 (as claimed): once Stop() has returned, the check at the start of the
\* next file observes the cancellation, so no file passes that check.
C7_StopAtNextFile == ~passedAfterStop


(***************************************************************************)
(* Properties of the pool and the thumbnail service, checked under         *)
(* SpecPool                                                                *)
(***************************************************************************)
Keys == {Key(id, size) : id \in ThumbMedia, size \in Sizes}

\* tasks for the key waiting in the queue
Queued(key) == {i \in DOMAIN taskQueue : TaskKey(taskQueue[i]) = key}

\* workers holding a dequeued task for the key whose handler has not returned
Running(key) ==
    {w \in Workers : wpc[w] \in {"call", "gen", "save", "end"}
                     /\ TaskKey(wtask[w]) = key}

\* callers that marked the key and are about to hand its task to the pool
Submitting(key) == {c \in Callers : cpc[c] = "submit" /\ TaskKey(ctask[c]) = key}

InFlight(key) ==
    Cardinality(Queued(key)) + Cardinality(Running(key))
        + Cardinality(Submitting(key))

\* C2: for every (mediaID, size) pair at most one task is about to be
\* submitted, queued or executing, and while one is, the pair is marked (in
\* flight or failed) so that QueueThumbnail for it returns false.
C2_OneInFlight ==
    \A key \in Keys :
        /\ InFlight(key) <= 1
        /\ InFlight(key) = 1 => (IsProcessing(key) \/ HasFailed(key))

\* a handler runs for a pair while a caller is free to ask for it again
C2_Witness ==
    \E w \in Workers, c \in Callers :
        /\ wpc[w] = "gen"
        /\ IsProcessing(TaskKey(wtask[w]))
        /\ cpc[c] = "idle"
        /\ tasksMade < MaxTasks

\* C3: when Stop() has returned every worker has left its loop, and from then
\* on no handler starts and no worker moves.
C3_DrainBeforeReturn ==
    /\ [](stopPc = "returned" => \A w \in Workers : wpc[w] = "exited")
    /\ [][stopPc = "returned" => (executed' = executed /\ wpc' = wpc
                                   /\ store' = store)]_vars

\* Stop() returned after a handler that was running during Stop() completed
C3_Witness ==
    /\ stopPc = "returned"
    /\ stats.CompletedTasks >= 1

\* C8: the queue never holds more than its capacity; a Submit on a running
\* pool takes the default branch exactly when the queue is full, leaving the
\* queue and the counters as they were, and otherwise appends the task; a
\* rejected task is never queued and never executed.
C8_SubmitFullQueue ==
    /\ [](/\ Len(taskQueue) <= QueueSize
          /\ \A i \in DOMAIN taskQueue : taskQueue[i].ID \notin rejected
          /\ \A w \in Workers : wtask[w].ID \notin rejected
          /\ executed \cap rejected = {})
    /\ [][\A c \in Callers :
             (cpc[c] = "submit" /\ cpc'[c] # "submit" /\ ~ctxDone /\ ~queueClosed)
                => IF Len(taskQueue) >= QueueSize
                   THEN /\ taskQueue' = taskQueue
                        /\ stats' = stats
                        /\ cpc'[c] = "unmark"
                        /\ ctask[c].ID \in rejected'
                   ELSE /\ taskQueue' = Append(taskQueue, ctask[c])
                        /\ cpc'[c] = "count"]_vars

\* a task was turned away by a full queue of a running pool
C8_Witness ==
    /\ rejected # {}
    /\ ~ctxDone
    /\ Len(taskQueue) = QueueSize

\* C9 (as claimed): a Submit that runs after Stop() has cancelled the pool
\* neither enqueues its task nor panics.
C9_SubmitAfterStop == ~panicked /\ ~lateAccepted

\* C10: a pair once marked failed stays failed, is not in flight, and no
\* QueueThumbnail call for it builds or submits a task.
C10_FailedIsFinal ==
    /\ [](\A key \in DOMAIN failed :
             /\ ~IsProcessing(key)
             /\ Queued(key) = {}
             /\ Submitting(key) = {}
             /\ \A w \in Workers :
                   (wpc[w] \in {"call", "gen", "save"}) => TaskKey(wtask[w]) # key)
    /\ [][/\ \A key \in DOMAIN failed : key \in DOMAIN failed'
          /\ \A c \in Callers :
                (cpc[c] = "idle" /\ cpc'[c] = "submit")
                    => ~HasFailed(TaskKey(ctask'[c]))]_vars

\* a pair has failed for good and a caller is free to ask for it again
C10_Witness ==
    /\ failed # <<>>
    /\ tasksMade < MaxTasks
    /\ \E c \in Callers : cpc[c] = "idle"
    /\ \A w \in Workers : wpc[w] = "idle"

(***************************************************************************)
(* Properties of the watcher, checked under SpecWatch                      *)
(***************************************************************************)
\* the stored events of burst b on a path: consecutive events on the path
\* with no timer firing between one and the next
BurstEvents(path, b) ==
    {i \in DOMAIN accepted : accepted[i].Path = path /\ accepted[i].Burst = b}

LastOf(S) == CHOOSE i \in S : \A j \in S : j <= i

RECURSIVE SumInvoked(_, _)
SumInvoked(h, S) ==
    IF S = {} THEN 0
    ELSE LET i == CHOOSE x \in S : TRUE
         IN  invoked[<<h, i>>] + SumInvoked(h, S \ {i})

\* nothing pending, no timer running, no processPendingEvents call in progress
WatcherQuiet ==
    DOMAIN pendingEvents = {} /\ timerArmed = 0 /\ DOMAIN callbacks = {}

\* C11 (as claimed): of the events of one burst on a path every handler is
\* handed at most one, and when the watcher is quiet again the event handed
\* over is the last of its burst and the last event seen on the path has
\* been handed over.
C11_DebounceCollapse ==
    \A path \in WatchPaths, h \in Handlers :
        \A b \in 1..burst[path] :
            /\ SumInvoked(h, BurstEvents(path, b)) <= 1
            /\ WatcherQuiet =>
                  /\ \A i \in BurstEvents(path, b) :
                        invoked[<<h, i>>] > 0 => i = LastOf(BurstEvents(path, b))
                  /\ b = burst[path] =>
                        invoked[<<h, LastOf(BurstEvents(path, b))>>] = 1

\* an accepted event stops the running debounce timer and arms a new one
\* (timer k is the one armed by the k-th accepted event)
Rearms == timerArmed # 0 /\ timerArmed' \notin {0, timerArmed}

\* C28 (as claimed): the debounce delay of a pending path is restarted only
\* by an event on that path: an event that stops the running timer while a
\* path is pending is an event on that path.
C28_PerPathDebounce ==
    [][Rearms =>
          \A path \in DOMAIN pendingEvents :
              accepted'[Len(accepted')].Path = path]_vars

\* where the i-th accepted event is
Pending(i) ==
    \E p \in DOMAIN pendingEvents : pendingEvents[p].Time = i
Taken(i) ==
    \E id \in DOMAIN callbacks :
        \E p \in DOMAIN callbacks[id].events : callbacks[id].events[p].Time = i
LaterOnPath(i) ==
    \E j \in DOMAIN accepted : j > i /\ accepted[j].Path = accepted[i].Path

\* C30: whatever the interleaving of handleFSEvent and the timer callbacks,
\* no handler is handed an event twice, and every accepted event is pending,
\* being dispatched by the callback that took it, dispatched once to every
\* handler, or was replaced in the map by a later event on its path before
\* any handler saw it; a pending map that holds events is emptied in the end.
C30_DrainExactlyOnce ==
    /\ [](\A i \in DOMAIN accepted :
             /\ \A h \in Handlers : invoked[<<h, i>>] <= 1
             /\ \/ Pending(i) /\ \A h \in Handlers : invoked[<<h, i>>] = 0
                \/ Taken(i) /\ ~Pending(i)
                \/ ~Pending(i) /\ \A h \in Handlers : invoked[<<h, i>>] = 1
                \/ /\ ~Pending(i)
                   /\ LaterOnPath(i)
                   /\ \A h \in Handlers : invoked[<<h, i>>] = 0)
    /\ (DOMAIN pendingEvents # {}) ~> (DOMAIN pendingEvents = {})

\* events arrived on two paths, one was replaced before the timer fired, the
\* others went to every handler, and the watcher is quiet again
C30_Witness ==
    /\ WatcherQuiet
    /\ Len(accepted) = MaxFsEvents
    /\ \E i, j \in DOMAIN accepted :
          /\ accepted[i].Path # accepted[j].Path
          /\ \A h \in Handlers : invoked[<<h, i>>] = 1 /\ invoked[<<h, j>>] = 1
    /\ \E i \in DOMAIN accepted :
          LaterOnPath(i) /\ \A h \in Handlers : invoked[<<h, i>>] = 0

\* C37 (as claimed): no handler is invoked after Watcher.Stop() has returned;
\* events pending in the debounce map at the Stop() are not dispatched later.
C37_NoDispatchAfterStop == ~invokedAfterStop

(***************************************************************************)
(* Further properties of the scanner and the store, checked under SpecScan *)
(***************************************************************************)
\* a step in which the scanner writes a record to the store
ScannerWrites == scanWrites' # scanWrites

\* C12 (as claimed): no write of the scanner changes a record that is
\* soft-deleted in the store at the moment of the write: the scanner neither
\* clears its DeletedAt nor rewrites it, however its read-check-save of the
\* file interleaves with a user's move-to-trash.
C12_NoResurrect ==
    [][ScannerWrites =>
          \A id \in DOMAIN store.media :
              store.media[id].DeletedAt # Nil =>
                  store'.media[id] = store.media[id]]_vars


\* the sizes and perceptual hashes CheckDuplicate can be asked about
ProbeSizes == 0..40
ProbeHashes == {calculateImageHash(c) : c \in Contents}

\* C13: in every state of the store a soft-deleted record is in no live
\* listing and in neither candidate set of CheckDuplicate (the size window of
\* any size, the perceptual matches of any hash), GetMedia still returns it,
\* and restoring it puts it back into the live listing.
C13_TrashedExcluded ==
    \A id \in DOMAIN store.media :
        store.media[id].DeletedAt # Nil =>
            /\ id \notin ListAllMedia(store)
            /\ \A size \in ProbeSizes : id \notin FindMediaBySizeRange(store, size)
            /\ \A h \in ProbeHashes :
                  id \notin SimilarMatches(store, h, TRUE, 64)
            /\ GetMedia(store, id) = Ptr(store.media[id])
            /\ id \in ListAllMedia(PutRecord(store, Restored(store.media[id])))

\* a record that was restored by a user and is in the trash again, next to a
\* live record of its size and perceptual hash
C13_Witness ==
    \E id, other \in DOMAIN store.media :
        /\ store.media[id].DeletedAt # Nil
        /\ id \in userRestored
        /\ store.media[other].DeletedAt = Nil
        /\ store.media[other].Size = store.media[id].Size
        /\ store.media[other].ImageHash = store.media[id].ImageHash
        /\ store.media[id].ImageHash # {}

\* C14: in every state of the store and for every new file, if a live record
\* has the file's non-empty checksum and its size, CheckDuplicate answers
\* exact with distance 0 and names a live record of that checksum, also when
\* a perceptual match exists; every size lies inside its own window.
C14_ExactTier ==
    /\ \A size \in ProbeSizes : MinSize(size) <= size /\ size <= MaxSize(size)
    /\ \A c \in Contents :
          LET size == ContentSize(c)
              checksum == calculateSHA256(c)
              r == CheckDuplicate(store, size, checksum, calculateImageHash(c),
                                  IsImage(ContentType(c)), ScanThreshold)
          IN  (\E id \in ListAllMedia(store) :
                   /\ store.media[id].Checksum = checksum
                   /\ store.media[id].Size = size) =>
                  /\ r.IsDuplicate
                  /\ r.Type = "exact"
                  /\ r.Distance = 0
                  /\ r.ExistingID \in ListAllMedia(store)
                  /\ store.media[r.ExistingID].Checksum = checksum
    /\ (spc = "savedup" /\ dupResult.Type = "exact") =>
          /\ dupResult.Distance = 0
          /\ dupResult.ExistingID \in DOMAIN store.media
          /\ store.media[dupResult.ExistingID].Checksum = cur.Checksum

\* the scanner holds an exact verdict for a file that a live record also
\* matches perceptually
C14_Witness ==
    /\ spc = "savedup"
    /\ dupResult.Type = "exact"
    /\ dupResult.ExistingID \in ListAllMedia(store)
    /\ SimilarMatches(store, cur.ImageHash, IsImage(cur.Type), ScanThreshold) # {}

\* similarity thresholds CheckDuplicate is probed with
Thresholds == {0, 3, ScanThreshold}

\* the live records whose non-zero perceptual hash is within thr of hash
Near(hash, thr) ==
    {id \in DOMAIN store.media :
        /\ store.media[id].DeletedAt = Nil
        /\ store.media[id].ImageHash # {}
        /\ hammingDistance(hash, store.media[id].ImageHash) <= thr}

\* C15: in every state of the store, for every new file without an exact
\* match: an image with a non-zero perceptual hash is answered similar
\* exactly when a live record with a non-zero hash is within the threshold,
\* whatever the sizes; the record named is the first such one in key order
\* and the distance is the Hamming distance to it; a file that is no image
\* or has hash 0 is answered not duplicate, and no record that is no image or
\* has hash 0 is ever named.
C15_SimilarTier ==
    /\ \A c \in Contents, thr \in Thresholds :
          LET hash == calculateImageHash(c)
              isImage == IsImage(ContentType(c))
              r == CheckDuplicate(store, ContentSize(c), calculateSHA256(c),
                                  hash, isImage, thr)
              exact == \E id \in ListAllMedia(store) :
                          /\ store.media[id].Checksum = calculateSHA256(c)
                          /\ store.media[id].Size >= MinSize(ContentSize(c))
                          /\ store.media[id].Size <= MaxSize(ContentSize(c))
          IN  ~exact =>
                /\ (isImage /\ hash # {}) =>
                      /\ (r.IsDuplicate /\ r.Type = "similar") <=> Near(hash, thr) # {}
                      /\ Near(hash, thr) = {} => r = NotDuplicate
                      /\ Near(hash, thr) # {} =>
                            /\ r.ExistingID \in Near(hash, thr)
                            /\ \A id \in Near(hash, thr) \ {r.ExistingID} :
                                  KeyBefore(r.ExistingID, id)
                            /\ r.Distance =
                                  hammingDistance(hash, store.media[r.ExistingID].ImageHash)
                /\ (~isImage \/ hash = {}) => r = NotDuplicate
                /\ r.Type = "similar" =>
                      /\ IsImage(store.media[r.ExistingID].Type)
                      /\ store.media[r.ExistingID].ImageHash # {}
    /\ (spc = "savedup" /\ dupResult.Type = "similar") =>
          /\ IsImage(cur.Type) /\ cur.ImageHash # {}
          /\ dupResult.ExistingID \in DOMAIN store.media
          /\ store.media[dupResult.ExistingID].ImageHash # {}
          /\ dupResult.Distance =
                hammingDistance(cur.ImageHash,
                                store.media[dupResult.ExistingID].ImageHash)
          /\ dupResult.Distance <= ScanThreshold

\* the scanner holds a similar verdict naming a live record whose size is
\* outside the size window of the new file
C15_Witness ==
    /\ spc = "savedup"
    /\ dupResult.Type = "similar"
    /\ dupResult.ExistingID \in ListAllMedia(store)
    /\ store.media[dupResult.ExistingID].Size > MaxSize(cur.Size)

\* the new images CheckDuplicate can be asked about whose checksum differs
\* from the checksum of every live record
FreshImages ==
    {c \in Contents :
        /\ IsImage(ContentType(c))
        /\ calculateImageHash(c) # {}
        /\ \A id \in ListAllMedia(store) :
              store.media[id].Checksum # calculateSHA256(c)}

\* the verdict of CheckDuplicate for a new file of content c
VerdictFor(c) ==
    CheckDuplicate(store, ContentSize(c), calculateSHA256(c),
                   calculateImageHash(c), IsImage(ContentType(c)), ScanThreshold)

InFile == {"walk", "count", "lookup", "build", "dup1", "dup2", "savedup",
           "softdel", "softdel2", "save"}

FileStepFails == events' # events /\ (spc' # spc \/ idx' # idx)

\* C21 (as claimed): a step of the walk in which the file cannot be read or
\* its hashes cannot be computed adds one to progress.Errors.
C21_ErrorsCounted ==
    [][(spc \in {"walk", "build"} /\ FileStepFails) =>
          progress'.Errors = progress.Errors + 1]_vars

\* the step of the walk that writes the updated record of a modified file,
\* the file being on disk as the walk found it
UpdatesRecord ==
    /\ spc = "save"
    /\ existing # Nil
    /\ store' # store
    /\ info.mtime = fs[idx].mtime

\* C26 (as claimed): the record a scan writes for a modified file carries
\* the checksum and the perceptual hash of the file's current content.
C26_HashesRecomputed ==
    [][(UpdatesRecord /\ cur.Checksum # EmptyString) =>
          /\ GetMedia(store', GenerateID(idx))[1].Checksum =
                 calculateSHA256(fs[idx].content)
          /\ GetMedia(store', GenerateID(idx))[1].ImageHash =
                 CalculateHashes(fs[idx].content, IsImage(info.type)).ImageHash]_vars

\* C27 (as claimed): the record a scan writes for a modified file keeps the
\* Metadata and TakenAt of the record it replaces, whether or not that
\* record had a TakenAt, and its favourite flag, tags, thumbnail paths and
\* CreatedAt.
C27_MetadataKept ==
    [][UpdatesRecord =>
          LET old == GetMedia(store, GenerateID(idx))[1]
              new == GetMedia(store', GenerateID(idx))[1]
          IN  /\ new.Metadata = old.Metadata
              /\ new.TakenAt = old.TakenAt
              /\ new.IsFavorite = old.IsFavorite
              /\ new.Tags = old.Tags
              /\ new.ThumbSmall = old.ThumbSmall
              /\ new.ThumbLarge = old.ThumbLarge
              /\ new.CreatedAt = old.CreatedAt]_vars

(***************************************************************************)
(* Further properties of the pool and the thumbnail service, checked under *)
(* SpecPool                                                                *)
(***************************************************************************)
\* the handler of worker w returns for a pair that is not permanently failed:
\* its task succeeded or failed with an error that is not permanent
CompletesRetryable(w) ==
    /\ wpc[w] = "end"
    /\ wpc'[w] = "finish"
    /\ (wok[w] = "ok" \/ ~HasFailed(TaskKey(wtask[w])))

\* C17: when a handler returns after a success or a non-permanent failure,
\* its pair is neither in flight nor failed; a QueueThumbnail call for a pair
\* in that condition passes both tests, and its submission to a running pool
\* with room in the queue enqueues a task that was neither queued nor
\* executed before and returns true.
C17_RetryAfterCompletion ==
    /\ [][\A w \in Workers :
             CompletesRetryable(w) =>
                 /\ ~IsProcessing(TaskKey(wtask[w]))'
                 /\ ~HasFailed(TaskKey(wtask[w]))'
                 /\ ~QueueRefused(TaskKey(wtask[w]))']_vars
    /\ [][\A c \in Callers :
             (/\ cpc[c] = "submit" /\ cpc'[c] # "submit"
              /\ HasRoom /\ ~ctxDone /\ ~queueClosed) =>
                 /\ cpc'[c] = "count"
                 /\ taskQueue' = Append(taskQueue, ctask[c])
                 /\ ctask[c].ID \notin executed
                 /\ \A i \in DOMAIN taskQueue : taskQueue[i].ID # ctask[c].ID]_vars

\* a handler has returned for a pair without marking it failed, and a later
\* task for the same pair has been accepted and waits in the queue
C17_Witness ==
    \E w \in Workers :
        /\ wpc[w] = "finish"
        /\ ~HasFailed(TaskKey(wtask[w]))
        /\ \E i \in DOMAIN taskQueue :
              /\ TaskKey(taskQueue[i]) = TaskKey(wtask[w])
              /\ taskQueue[i].ID > wtask[w].ID
        /\ \E c \in Callers : cpc[c] = "count"

\* C18: a QueueThumbnail call that returns false leaves the service as it
\* found it.  A call refused at once changes nothing.  A call whose task the
\* pool turns away had found its pair neither in flight nor failed, added
\* only its own mark, and removes exactly that mark before it returns; no
\* step of the call touches the failed set or the mark of another pair.
C18_RejectedLeavesNoMark ==
    /\ [](\A c \in Callers :
             cpc[c] \in {"submit", "unmark"} =>
                 /\ IsProcessing(TaskKey(ctask[c]))
                 /\ ~HasFailed(TaskKey(ctask[c])))
    /\ [][\A c \in Callers :
             /\ (cpc[c] = "idle" /\ cpc'[c] = "submit") =>
                   /\ ~IsProcessing(TaskKey(ctask'[c]))
                   /\ ~HasFailed(TaskKey(ctask'[c]))
                   /\ processing' = processing \cup {TaskKey(ctask'[c])}
                   /\ failed' = failed
             /\ (cpc[c] = "submit" /\ cpc'[c] = "unmark") =>
                   /\ processing' = processing
                   /\ failed' = failed
             /\ (cpc[c] = "unmark" /\ cpc'[c] = "idle") =>
                   /\ processing' = processing \ {TaskKey(ctask[c])}
                   /\ ~IsProcessing(TaskKey(ctask[c]))'
                   /\ ~HasFailed(TaskKey(ctask[c]))'
                   /\ failed' = failed]_vars

\* a call turned away by a full queue has returned false: the only mark left
\* is the one of the task that fills the queue
C18_Witness ==
    /\ rejected # {}
    /\ ~ctxDone
    /\ \A c \in Callers : cpc[c] = "idle"
    /\ Len(taskQueue) = 1
    /\ processing = {TaskKey(taskQueue[1])}
    /\ tasksMade = 2

\* C22: a worker is never held up by its result: at the send it can always
\* step, the buffer never exceeds its capacity, and the worker that found
\* the buffer full has let go of the task whose result was dropped.
C22_ResultNeverBlocks ==
    /\ Len(resultQueue) <= QueueSize
    /\ \A w \in Workers :
          (wpc[w] = "finish" /\ ~panicked) => ENABLED Finish(w)
    /\ \A w \in Workers : wtask[w].ID \notin dropped

\* a result was dropped on a full buffer nobody drained, and its worker is
\* back in the loop
C22_Witness ==
    /\ dropped # {}
    /\ Len(resultQueue) = QueueSize
    /\ stats.CompletedTasks + stats.FailedTasks = Cardinality(dropped) + QueueSize
    /\ \A w \in Workers : wpc[w] = "idle"

\* the thumbnail path the persisted record of a media holds for a size class
ThumbField(st, mediaID, size) ==
    IF GetMedia(st, mediaID) = Nil THEN EmptyString
    ELSE CASE size = "small" -> GetMedia(st, mediaID)[1].ThumbSmall
           [] size = "large" -> GetMedia(st, mediaID)[1].ThumbLarge
           [] OTHER -> EmptyString

\* the step in which the handler of worker w succeeds
Succeeds(w) == wpc[w] = "save" /\ wpc'[w] = "end" /\ wok'[w] = "ok"

\* C24 (as claimed): when a thumbnail task succeeds the persisted record
\* holds the generated path in the field of the task's size class, and the
\* path another successful task recorded for another size class is kept.
C24_ThumbPathsRecorded ==
    [][\A w \in Workers :
          Succeeds(w) =>
              /\ ThumbField(store', wtask[w].MediaID, wtask[w].Size) =
                     GetThumbnailPath(wtask[w].MediaID, wtask[w].Size)
              /\ \A size \in Sizes :
                    ThumbField(store, wtask[w].MediaID, size) =
                        GetThumbnailPath(wtask[w].MediaID, size)
                    => ThumbField(store', wtask[w].MediaID, size) =
                        GetThumbnailPath(wtask[w].MediaID, size)]_vars

\* C29 (as claimed): a task whose timeout passed before its handler
\* returned counts as failed, with one more FailedTasks and an unsuccessful
\* result, and its worker returns to the loop.
C29_TimeoutFails ==
    [][\A w \in Workers :
          (wpc[w] = "finish" /\ wpc'[w] # "finish" /\ wtask[w].ID \in expired) =>
              /\ wpc'[w] = "idle"
              /\ stats'.FailedTasks = stats.FailedTasks + 1
              /\ stats'.CompletedTasks = stats.CompletedTasks
              /\ resultQueue' \in {resultQueue, Append(resultQueue, FALSE)}]_vars

\* ids of the tasks a worker holds
Held == {wtask[w].ID : w \in {v \in Workers : wtask[v] # NoTask}}

\* C31: a task is held by one worker at a time and is never in the queue
\* again once a worker took it; the handler is about to be invoked only for
\* a task it was never invoked for; and every task that went through a
\* worker added one to exactly one of CompletedTasks and FailedTasks.
C31_AtMostOnce ==
    /\ \A v, w \in Workers :
          (v # w /\ wtask[v] # NoTask) => wtask[v].ID # wtask[w].ID
    /\ \A i \in DOMAIN taskQueue :
          /\ taskQueue[i].ID \notin executed \cup unhandled \cup Held
          /\ \A j \in DOMAIN taskQueue : taskQueue[j].ID = taskQueue[i].ID => j = i
    /\ \A w \in Workers : wpc[w] = "call" => wtask[w].ID \notin executed
    /\ stats.CompletedTasks + stats.FailedTasks =
          Cardinality((executed \cup unhandled) \ Held)

\* two tasks went through the workers, one handler succeeded and one failed
C31_Witness ==
    /\ stats.CompletedTasks = 1
    /\ stats.FailedTasks = 1
    /\ Cardinality(executed) = 2
    /\ Held = {}

\* C32: after Start() the ActiveWorkers counter is the number of workers
\* inside processTask, at most the worker count, and the queue never holds
\* more tasks than its capacity.
C32_BoundedResources ==
    /\ stats.ActiveWorkers =
          Cardinality({w \in Workers :
                          wpc[w] \in {"call", "gen", "save", "end", "finish"}})
    /\ stats.ActiveWorkers <= NumWorkers
    /\ Len(taskQueue) <= QueueSize

\* the queue is full behind a running handler
C32_Witness ==
    /\ Len(taskQueue) = QueueSize
    /\ stats.ActiveWorkers >= 1
    /\ \E w \in Workers : wpc[w] = "gen"

\* C34 (as claimed): a pair whose task a started pool accepted stops being
\* in flight in the end, also when Stop() is called while the task waits in
\* the queue (unless the process has panicked).
C34_MarkReleased ==
    \A key \in Keys :
        (poolStarted /\ IsProcessing(key) /\ Queued(key) # {})
            ~> (~IsProcessing(key) \/ panicked)

\* C35: no pair is both in the failed set and in the in-flight set, and no
\* step takes a pair out of the failed set.
C35_FailedDisjoint ==
    /\ [](DOMAIN failed \cap processing = {})
    /\ [][DOMAIN failed \subseteq DOMAIN failed']_vars

\* a pair failed for good while another pair is in flight, the handler that
\* marked it not yet returned
C35_Witness ==
    /\ \E w \in Workers :
          /\ wpc[w] = "end"
          /\ HasFailed(TaskKey(wtask[w]))
    /\ processing # {}

\* C36 (as claimed): QueuedTasks is never negative and the tasks counted
\* as completed or failed never outnumber the tasks counted as submitted.
C36_StatsConsistent ==
    /\ stats.QueuedTasks >= 0
    /\ stats.CompletedTasks + stats.FailedTasks <= stats.TotalTasks

(***************************************************************************)
(* Properties of SubmitBlocking, checked under SpecBlock                   *)
(***************************************************************************)
\* the task of caller b is in the queue or with a worker
Enqueued(t) ==
    \/ \E i \in DOMAIN taskQueue : taskQueue[i] = t
    \/ \E w \in Workers : wtask[w] = t
    \/ t.ID \in executed \cup unhandled

\* C19 (as claimed): a SubmitBlocking call made on a running pool whose
\* queue is full never panics; it returns true only with its task enqueued
\* and false only when
\* the pool is cancelled; no caller is parked once Stop() has cancelled the
\* pool, and a caller parked on a started pool returns in the end.
C19_SubmitBlockingReturns ==
    /\ [](\A b \in BlockingCallers :
             bpc[b] = "panic" => ~calledFull[b])
    /\ [](\A b \in BlockingCallers :
             /\ bret[b] = "false" => ctxDone
             /\ bpc[b] = "count" => Enqueued(btask[b])
             /\ ctxDone => bpc[b] # "blocked")
    /\ \A b \in BlockingCallers :
          (bpc[b] = "blocked" /\ poolStarted) ~> (bpc[b] = "idle" /\ bret[b] # "")

\* the remainder of the contract of SubmitBlocking, which holds: the return
\* values, no caller parked after the cancellation, and every parked caller
\* returning unless the process has panicked
C19_Rest ==
    /\ [](\A b \in BlockingCallers :
             /\ bret[b] = "false" => ctxDone
             /\ bpc[b] = "count" => Enqueued(btask[b])
             /\ ctxDone => bpc[b] # "blocked")
    /\ \A b \in BlockingCallers :
          (bpc[b] = "blocked" /\ poolStarted) ~>
              (panicked \/ (bpc[b] = "idle" /\ bret[b] # ""))

(***************************************************************************)
(* Properties of the pool with tasks of two types, checked under SpecBlock *)
(***************************************************************************)
\* worker w holds a task whose type has no handler
Orphan(w) == wtask[w] # NoTask /\ wtask[w].Type \notin handlers

\* C23: a dequeued task whose type has no registered handler invokes no
\* handler and is not put back on the queue; its worker records one failure
\* with an unsuccessful result and returns to its loop.
C23_NoHandlerFails ==
    /\ [](\A w \in Workers : Orphan(w) => wtask[w].ID \notin executed)
    /\ [][\A w \in Workers :
             (Orphan(w) /\ wpc[w] = "call" /\ wpc'[w] # "call") =>
                 /\ wpc'[w] = "finish"
                 /\ wok'[w] = "err"
                 /\ executed' = executed
                 /\ taskQueue' = taskQueue
                 /\ stats' = stats]_vars
    /\ [][\A w \in Workers :
             (Orphan(w) /\ wpc[w] = "finish" /\ wpc'[w] # "finish") =>
                 /\ wpc'[w] = "idle"
                 /\ stats'.FailedTasks = stats.FailedTasks + 1
                 /\ stats'.CompletedTasks = stats.CompletedTasks
                 /\ resultQueue' \in {resultQueue, Append(resultQueue, FALSE)}
                 /\ \A i \in DOMAIN taskQueue' :
                       taskQueue'[i].ID # wtask[w].ID]_vars
    /\ [](\A i \in DOMAIN taskQueue : taskQueue[i].ID \notin unhandled)

\* a task without a handler went through a worker that has since taken the
\* next task
C23_Witness ==
    /\ unhandled # {}
    /\ stats.FailedTasks = Cardinality(unhandled)
    /\ \E w \in Workers :
          /\ wpc[w] = "gen"
          /\ \E id \in unhandled : id < wtask[w].ID
    /\ \A w \in Workers : wtask[w].ID \notin unhandled

\* C38: Progress().Running equals IsScanning() in every state; a Start()
\* that is accepted resets every progress counter to zero; and the end of
\* scan(), after a whole walk or after a stop, clears both flags, so that
\* the next Start() is not refused.
C38_LifecycleFlags ==
    /\ [](progress.Running = scanning)
    /\ [][(~scanning /\ scanning') =>
              progress' = ZeroProgress(TRUE, progress'.StartedAt)]_vars
    /\ [][(spc = "walkdone" /\ spc' = "none") =>
              (~scanning' /\ ~progress'.Running /\ ~StartRefused')]_vars
C38_Witness ==
    /\ scansStarted = 2
    /\ scanning
    /\ progress = ZeroProgress(TRUE, 2)

\* the files of the running scan counted as new, updated, duplicate or failed
Tally(p) == p.NewFiles + p.UpdatedFiles + p.SkippedDuplicates + p.Errors

\* C39: a visited media file adds exactly one to TotalFiles and to Scanned,
\* and at most one to one of NewFiles, UpdatedFiles, SkippedDuplicates and
\* Errors, that step being the last one of the file; so TotalFiles equals
\* Scanned and NewFiles + UpdatedFiles + SkippedDuplicates never exceeds
\* TotalFiles.  NewFiles is counted only for a path without a record and
\* UpdatedFiles only for a path with one.
C39_CounterAccounting ==
    /\ [](/\ progress.TotalFiles = progress.Scanned
          /\ progress.NewFiles + progress.UpdatedFiles
                + progress.SkippedDuplicates <= progress.TotalFiles)
    /\ [][(scansStarted' = scansStarted
              /\ progress'.TotalFiles # progress.TotalFiles) =>
              /\ spc = "count"
              /\ progress'.TotalFiles = progress.TotalFiles + 1
              /\ progress'.Scanned = progress.Scanned + 1
              /\ Tally(progress') = Tally(progress)]_vars
    /\ [][(scansStarted' = scansStarted
              /\ Tally(progress') # Tally(progress)) =>
              /\ Tally(progress') = Tally(progress) + 1
              /\ \A f \in {"NewFiles", "UpdatedFiles", "SkippedDuplicates",
                            "Errors"} : progress'[f] >= progress[f]
              /\ info' = NoInfo]_vars
    /\ [][(scansStarted' = scansStarted
              /\ progress'.NewFiles # progress.NewFiles) =>
              GetMediaByPath(store, idx) = Nil]_vars
    /\ [][(scansStarted' = scansStarted
              /\ progress'.UpdatedFiles # progress.UpdatedFiles) =>
              GetMediaByPath(store, idx) # Nil]_vars
C39_Witness ==
    /\ progress.TotalFiles = 2
    /\ progress.NewFiles = 1
    /\ progress.UpdatedFiles = 1

\* the step of CheckDuplicate that answers "duplicate" for the file at hand
MarksDuplicate == spc \in {"dup1", "dup2"} /\ spc' = "savedup"

\* C40: the duplicate check runs only for a path without a record; when it
\* marks the file as a duplicate, DuplicateOf names another record, one that
\* is in the store and not soft-deleted at that check; and the record a
\* re-scan writes for a known, modified file is never marked as a duplicate.
C40_DuplicateOnlyNewAgainstLive ==
    /\ [](spc \in {"dup1", "dup2", "savedup", "softdel", "softdel2"} =>
              existing = Nil)
    /\ [][MarksDuplicate =>
              /\ GetMediaByPath(store, idx) = Nil
              /\ cur'.DuplicateOf = dupResult'.ExistingID
              /\ cur'.DuplicateOf # cur'.ID
              /\ cur'.DuplicateOf \in DOMAIN store.media
              /\ store.media[cur'.DuplicateOf].DeletedAt = Nil]_vars
    /\ [][(spc = "save" /\ spc' # spc /\ existing # Nil /\ store' # store) =>
              /\ GetMedia(store', cur.ID)[1].DuplicateOf = EmptyString
              /\ GetMedia(store', cur.ID)[1].DeletedAt = Nil
              /\ progress'.SkippedDuplicates = progress.SkippedDuplicates]_vars

\* a known file, rewritten with the bytes of another live record, is about to
\* be saved by a re-scan, in a store where a duplicate was marked before
C40_Witness ==
    /\ spc = "save"
    /\ existing # Nil
    /\ verdict # <<>>
    /\ \E id \in DOMAIN store.media :
          /\ id # cur.ID
          /\ store.media[id].DeletedAt = Nil
          /\ store.media[id].Checksum = calculateSHA256(fs[idx].content)

(***************************************************************************)
(* Properties of the thumbnail service beside edits, checked under SpecEdit *)
(***************************************************************************)
\* C33 (as claimed): the step in which a thumbnail handler saves its record
\* changes the thumbnail paths only: DeletedAt, the favourite flag and the
\* tags of the persisted record stay as they were committed.
C33_OnlyThumbChanges ==
    [][\A w \in Workers :
          Succeeds(w) =>
              LET old == GetMedia(store, wtask[w].MediaID)[1]
                  new == GetMedia(store', wtask[w].MediaID)[1]
              IN  /\ new.DeletedAt = old.DeletedAt
                  /\ new.IsFavorite = old.IsFavorite
                  /\ new.Tags = old.Tags]_vars

(***************************************************************************)
(* Properties of DeleteMedia, checked under SpecStore                      *)
(***************************************************************************)
\* some index, favourites list or album of the buckets names the ID
Named(st, ln, id) ==
    \/ \E k \in DOMAIN st.idxDir : \E i \in DOMAIN st.idxDir[k] : st.idxDir[k][i] = id
    \/ \E k \in DOMAIN st.idxDate : \E i \in DOMAIN st.idxDate[k] : st.idxDate[k][i] = id
    \/ \E k \in DOMAIN ln.idxTag : \E i \in DOMAIN ln.idxTag[k] : ln.idxTag[k][i] = id
    \/ \E k \in DOMAIN ln.favorites : \E i \in DOMAIN ln.favorites[k] : ln.favorites[k][i] = id
    \/ \E k \in DOMAIN ln.userFav : \E i \in DOMAIN ln.userFav[k] : ln.userFav[k][i] = id
    \/ \E k \in DOMAIN ln.albums : \E i \in DOMAIN ln.albums[k] : ln.albums[k][i] = id

\* C25 (as claimed): the step of DeleteMedia that removes a record leaves its
\* ID in no directory index, date index, tag index, favourites index,
\* per-user favourites list or album.
C25_DeleteRemovesAll ==
    [][\A id \in IDs :
          (id \in DOMAIN store.media /\ id \notin DOMAIN store'.media) =>
              ~Named(store', links', id)]_vars

====
